---------------------------- MODULE Spec2Model ----------------------------
(***************************************************************************)
(* Authentication core of the Fabric workload backend (Python):            *)
(*   - SubjectAndAppToken: the dual-token Authorization header codec       *)
(*   - AuthenticationService: control-plane / data-plane authentication    *)
(*     and the AAD token validation pipeline                               *)
(*                                                                         *)
(* Strings that the code parses are sequences of characters, each          *)
(* character a one-character string ("U+00E9" names the letter e-acute).   *)
(* An optional string (Python Optional[str]) is a record                   *)
(* [some, v]: None is [some |-> FALSE, v |-> <<>>].                        *)
(***************************************************************************)
EXTENDS Integers, Sequences, FiniteSets, TLC

\* ------------------------------------------------------------------------
\* Bounds of the model
\* ------------------------------------------------------------------------

\* Longest token body (the characters after "eyJ") the codec is driven with.
MaxBodyLen == 2

\* ------------------------------------------------------------------------
\* Optional strings
\* ------------------------------------------------------------------------

None == [some |-> FALSE, v |-> <<>>]

Some(s) == [some |-> TRUE, v |-> s]

\* Python truthiness of an Optional[str]: None and "" are falsy.
Truthy(o) == o.some /\ o.v # <<>>

\* ------------------------------------------------------------------------
\* Characters
\* ------------------------------------------------------------------------

AsciiLetters ==
    {"a", "b", "c", "d", "e", "f", "g", "h", "i", "j", "k", "l", "m",
     "n", "o", "p", "q", "r", "s", "t", "u", "v", "w", "x", "y", "z",
     "A", "B", "C", "D", "E", "F", "G", "H", "I", "J", "K", "L", "M",
     "N", "O", "P", "Q", "R", "S", "T", "U", "V", "W", "X", "Y", "Z"}

AsciiDigits == {"0", "1", "2", "3", "4", "5", "6", "7", "8", "9"}

\* Letters outside ASCII that the model uses.
UnicodeLetters == {"U+00E9"}

\* \w of a Python 3 str pattern compiled without re.ASCII: every Unicode
\* alphanumeric character and the underscore.
IsWordChar(c) == c \in AsciiLetters \cup AsciiDigits \cup UnicodeLetters \cup {"_"}

\* The character class [\w\-\._] of both header patterns.
IsTokenChar(c) == IsWordChar(c) \/ c \in {"-", ".", "_"}

\* ------------------------------------------------------------------------
\* SubjectAndAppToken: header patterns, parse, generate
\* ------------------------------------------------------------------------

\* 'SubjectAndAppToken1.0 subjectToken="'
SchemePrefix ==
    <<"S", "u", "b", "j", "e", "c", "t", "A", "n", "d", "A", "p", "p", "T",
      "o", "k", "e", "n", "1", ".", "0", " ", "s", "u", "b", "j", "e", "c",
      "t", "T", "o", "k", "e", "n", "=", "\"">>

\* '", appToken="'
AppTokenInfix ==
    <<"\"", ",", " ", "a", "p", "p", "T", "o", "k", "e", "n", "=", "\"">>

ClosingQuote == <<"\"">>

JwtPrefix == <<"e", "y", "J">>

\* The group (eyJ[\w\-\._]+): "eyJ" and then one or more token characters.
IsJwtGroup(s) ==
    /\ Len(s) >= Len(JwtPrefix) + 1
    /\ SubSeq(s, 1, Len(JwtPrefix)) = JwtPrefix
    /\ \A i \in (Len(JwtPrefix) + 1)..Len(s) : IsTokenChar(s[i])

HasPrefix(s, p) == Len(s) >= Len(p) /\ SubSeq(s, 1, Len(p)) = p

\* re.fullmatch(HEADER_PATTERN, h): the ends i of group 1 for which the whole
\* of h is prefix, group 1, infix, group 2, closing quote. A token character
\* is never a quote, so there is at most one such i.
HeaderPatternEnds(h) ==
    LET n == Len(h)
        p == Len(SchemePrefix)
        m == Len(AppTokenInfix)
    IN  { i \in (p + 1)..n :
            /\ HasPrefix(h, SchemePrefix)
            /\ IsJwtGroup(SubSeq(h, p + 1, i))
            /\ i + m < n
            /\ SubSeq(h, i + 1, i + m) = AppTokenInfix
            /\ IsJwtGroup(SubSeq(h, i + m + 1, n - 1))
            /\ h[n] = "\"" }

\* re.fullmatch(HEADER_PATTERN_EMPTY_SUBJECT, h)
MatchesEmptySubjectPattern(h) ==
    LET n == Len(h)
        p == Len(SchemePrefix)
        m == Len(AppTokenInfix)
    IN  /\ HasPrefix(h, SchemePrefix \o AppTokenInfix)
        /\ n > p + m
        /\ IsJwtGroup(SubSeq(h, p + m + 1, n - 1))
        /\ h[n] = "\""

ParseError(msg) ==
    [ok |-> FALSE, error |-> "AuthenticationException", message |-> msg,
     subject_token |-> None, app_token |-> <<>>]

ParseOk(subject, app) ==
    [ok |-> TRUE, error |-> "", message |-> "",
     subject_token |-> subject, app_token |-> app]

\* SubjectAndAppToken.parse(auth_header_value), auth_header_value optional.
Parse(auth_header_value) ==
    IF ~Truthy(auth_header_value)
    THEN ParseError("Invalid Authorization header")
    ELSE LET h == auth_header_value.v
             p == Len(SchemePrefix)
             m == Len(AppTokenInfix)
             ends == HeaderPatternEnds(h)
         IN  IF ends # {}
             THEN LET i == CHOOSE e \in ends : TRUE
                  IN  ParseOk(Some(SubSeq(h, p + 1, i)),
                              SubSeq(h, i + m + 1, Len(h) - 1))
             ELSE IF MatchesEmptySubjectPattern(h)
                  THEN ParseOk(None, SubSeq(h, p + m + 1, Len(h) - 1))
                  ELSE ParseError("Invalid SubjectAndAppToken header format")

\* The header an f-string builds when None is not replaced by "".
GenerateAuthorizationHeaderValue_NoneAsText(subject_token, app_token) ==
    LET effective_subject_token ==
            IF subject_token.some THEN subject_token.v ELSE <<"N", "o", "n", "e">>
    IN  SchemePrefix \o effective_subject_token \o AppTokenInfix
            \o app_token \o ClosingQuote

\* SubjectAndAppToken.generate_authorization_header_value(subject_token, app_token)
GenerateAuthorizationHeaderValue(subject_token, app_token) ==
    LET effective_subject_token ==
            IF subject_token.some THEN subject_token.v ELSE <<>>
    IN  SchemePrefix \o effective_subject_token \o AppTokenInfix
            \o app_token \o ClosingQuote

\* ------------------------------------------------------------------------
\* Inputs the codec is driven with
\* ------------------------------------------------------------------------

\* Characters of token bodies: token characters of each kind of the class,
\* a letter outside ASCII, and characters outside the class.
BodyAlphabet == {"a", "_", "-", ".", "U+00E9", "+", "\""}

RECURSIVE SeqsUpTo(_, _)
SeqsUpTo(S, n) ==
    IF n = 0 THEN {<<>>}
    ELSE LET shorter == SeqsUpTo(S, n - 1)
         IN  shorter \cup {Append(s, c) : s \in {t \in shorter : Len(t) = n - 1}, c \in S}

TokenBodies == SeqsUpTo(BodyAlphabet, MaxBodyLen)

\* Candidate token texts: well-formed JWT prefixes, a wrong-case prefix and
\* no prefix at all, each followed by a body.
TokenTexts ==
    {h \o b : h \in {JwtPrefix, <<"e", "y", "j">>, <<>>}, b \in TokenBodies}

PlainToken == <<"e", "y", "J", "a">>

\* Framings of the two values other than the canonical one.
BadInfixes == { <<"\"", ",", "a", "p", "p", "T", "o", "k", "e", "n", "=", "\"">>,
                <<"\"", " ", "a", "p", "p", "T", "o", "k", "e", "n", "=", "\"">> }

BearerScheme == <<"B", "e", "a", "r", "e", "r">>

RawHeaders ==
    {None, Some(<<>>), Some(BearerScheme \o <<" ">> \o PlainToken)}
    \cup {Some(GenerateAuthorizationHeaderValue(Some(s), PlainToken)) : s \in TokenTexts}
    \cup {Some(GenerateAuthorizationHeaderValue(Some(PlainToken), a)) : a \in TokenTexts}
    \cup {Some(GenerateAuthorizationHeaderValue(None, a)) : a \in TokenTexts}
    \cup {Some(SchemePrefix \o PlainToken \o x \o PlainToken \o ClosingQuote) : x \in BadInfixes}
    \cup {Some(GenerateAuthorizationHeaderValue(Some(PlainToken), PlainToken) \o t) :
              t \in {<<" ">>, <<"\"">>, <<"\n">>}}
    \cup {Some(<<" ">> \o GenerateAuthorizationHeaderValue(Some(PlainToken), PlainToken))}
    \cup {Some(SubSeq(GenerateAuthorizationHeaderValue(Some(PlainToken), PlainToken), 1, k)) :
              k \in {Len(SchemePrefix), Len(SchemePrefix) + 4}}

\* Pairs handed to generate: any optional subject text, any app text.
GenerateInputs ==
    {<<s, a>> : s \in {None} \cup {Some(t) : t \in TokenTexts}, a \in {PlainToken}}
    \cup {<<s, a>> : s \in {None, Some(PlainToken)}, a \in TokenTexts}
    \cup {<<Some(s), a>> : s \in {t \in TokenTexts : IsJwtGroup(t)},
                           a \in {t \in TokenTexts : IsJwtGroup(t)}}

\* ------------------------------------------------------------------------
\* Configuration of the service and program constants
\* ------------------------------------------------------------------------

\* Python None where the model holds a plain string (tenant ids, claim values).
NoneStr == "<None>"

\* A claim the token's payload (or header) does not carry.
Absent == "<absent>"

\* EnvironmentConstants
FABRIC_BACKEND_APP_ID == "00000009-0000-0000-c000-000000000000"

FABRIC_CLIENT_FOR_WORKLOADS_APP_ID == "d2450708-699c-41e3-8077-b0c8341509aa"

AAD_INSTANCE_URL == "https://login.microsoftonline.com"

\* WorkloadScopes
FABRIC_WORKLOAD_CONTROL == "FabricWorkloadControl"

ITEM1_READ_ALL == "Item1.Read.All"

\* Values the configuration service hands to AuthenticationService.__init__.
publisher_tenant_id == "pub"

audience == "api://workload-audience"

client_id == "workload-client-id"

subject_and_app_auth_allowed_scopes == <<FABRIC_WORKLOAD_CONTROL>>

\* Tenants of the model: the publisher's and a customer's.
Tenants == {publisher_tenant_id, "t1"}

\* ------------------------------------------------------------------------
\* Tokens
\*
\* A token is opaque text until a step of the service reads it. The model
\* keeps, per token text, the part of the token the current call has read,
\* and draws each field at the step that reads it first: the behaviours are
\* those of drawing whole tokens at the call, seen through what the code
\* reads. U (US for fields that are sequences) marks a field not read yet.
\* ------------------------------------------------------------------------

U == "?"

US == <<"?">>

AbsentSeq == <<Absent>>

STS == "https://sts.windows.net/"

\* Issuer texts as sequences of segments.
IssuerV1Of(t) == <<STS, t, "/">>

IssuerV2Of(t) == <<AAD_INSTANCE_URL, "/", t, "/v2.0">>

StringFields == {"wf", "kid", "tid", "ver", "appid", "azp", "idtyp", "oid",
                 "sig", "iat", "nbf", "exp", "aud"}

Dom(f) ==
    CASE f = "wf"    -> {"ok", "malformed"}
      [] f = "kid"   -> {"k1", "k2", Absent}
      [] f = "tid"   -> Tenants \cup {Absent, ""}
      [] f = "ver"   -> {"1.0", "2.0", "3.0", Absent}
      [] f = "appid" -> {FABRIC_BACKEND_APP_ID, FABRIC_CLIENT_FOR_WORKLOADS_APP_ID,
                         "other-app", Absent}
      [] f = "azp"   -> {FABRIC_BACKEND_APP_ID, FABRIC_CLIENT_FOR_WORKLOADS_APP_ID,
                         "other-app", Absent}
      [] f = "idtyp" -> {"app", "user", Absent}
      [] f = "oid"   -> {"oid-1", Absent}
      [] f = "sig"   -> {"valid", "invalid"}
      [] f = "iat"   -> {"ok", "invalid"}
      [] f = "nbf"   -> {"ok", "future"}
      [] f = "exp"   -> {"ok", "expired"}
      [] f = "aud"   -> {audience, client_id, "other-audience"}
      \* scp: a string, as its words and the blanks between them
      [] f = "scp"   -> {AbsentSeq, <<>>, <<FABRIC_WORKLOAD_CONTROL>>, <<ITEM1_READ_ALL>>,
                         <<ITEM1_READ_ALL, " ", FABRIC_WORKLOAD_CONTROL>>}
      \* roles: a list of strings
      [] f = "roles" -> {AbsentSeq, <<FABRIC_WORKLOAD_CONTROL>>}
      [] f = "iss"   -> {IssuerV1Of(t) : t \in Tenants} \cup {IssuerV2Of(t) : t \in Tenants}
                            \cup {<<"https://issuer.example/">>}

UnreadOf(f) == IF f \in StringFields THEN U ELSE US

UnreadToken ==
    [wf |-> U, kid |-> U, tid |-> U, ver |-> U, appid |-> U, azp |-> U,
     idtyp |-> U, oid |-> U, sig |-> U, iat |-> U, nbf |-> U, exp |-> U,
     aud |-> U, scp |-> US, roles |-> US, iss |-> US]

\* Token texts of the authentication model.
TokA == PlainToken

TokB == <<"e", "y", "J", "b">>

AuthTokenTexts == {TokA, TokB, <<>>}

\* ------------------------------------------------------------------------
\* OpenID Connect configuration as the validation reads it
\* ------------------------------------------------------------------------

NoConfig == [issuer_configuration |-> <<>>, signing_keys |-> <<>>, present |-> FALSE]

Config(issuer, keys) ==
    [issuer_configuration |-> issuer, signing_keys |-> keys, present |-> TRUE]

SigningKey(kid) == [kid |-> kid]

NoKey == [kid |-> "<no key>"]

\* Issuer templates: the multi-tenant one, a tenant's own (no placeholder),
\* and one whose placeholder has another name.
IssuerTemplates ==
    { <<STS, "{tenantid}", "/">>, <<STS, publisher_tenant_id, "/">>, <<STS, "{tenant}", "/">> }

Configs ==
    { Config(i, <<SigningKey("k1")>>) : i \in IssuerTemplates }
    \cup { Config(<<STS, "{tenantid}", "/">>, <<SigningKey(Absent), SigningKey("k1")>>) }

\* ------------------------------------------------------------------------
\* Pure helpers of AuthenticationService
\* ------------------------------------------------------------------------

\* Python truthiness of an optional plain string.
Falsy(s) == s = NoneStr \/ s = ""

\* str.strip(): leading and trailing white space removed.
IsSpace(c) == c \in {" ", "\t", "\n"}

RECURSIVE LStrip(_)
LStrip(s) == IF s # <<>> /\ IsSpace(Head(s)) THEN LStrip(Tail(s)) ELSE s

RECURSIVE RStrip(_)
RStrip(s) ==
    IF s # <<>> /\ IsSpace(s[Len(s)]) THEN RStrip(SubSeq(s, 1, Len(s) - 1)) ELSE s

Strip(s) == RStrip(LStrip(s))

\* str.split() of a string given as words and blanks.
IsWord(w) == w # " "

Split(s) == SelectSeq(s, IsWord)

\* _get_token_version with every version but "1.0" taken as V2.
TokenVersionOf_ElseV2(ver) ==
    CASE ver = "1.0" -> "V1"
      [] OTHER -> "V2"

\* _get_token_version on the value of the ver claim.
TokenVersionOf(ver) ==
    CASE ver = "1.0" -> "V1"
      [] ver = "2.0" -> "V2"
      [] OTHER -> "unsupported"

\* "appid" if token_version == TokenVersion.V1 else "azp"
AppIdClaimName(token_version) == IF token_version = "V1" THEN "appid" ELSE "azp"

\* _get_excpected_audience
ExpectedAudience(token_version) == IF token_version = "V1" THEN audience ELSE client_id

IsPlaceholder(seg) == seg \in {"{tenantid}", "{tenant}"}

\* str.format(tenantid=tenant_id) raises KeyError on any other field name.
FormatRaisesKeyError(template) ==
    \E i \in DOMAIN template : IsPlaceholder(template[i]) /\ template[i] # "{tenantid}"

FormatIssuer(template, tenant_id) ==
    [i \in DOMAIN template |->
        IF template[i] = "{tenantid}" THEN tenant_id ELSE template[i]]

\* get_expected_issuer: [ok, issuer, message]
GetExpectedIssuer(oidc_config, token_version, tenant_id) ==
    CASE token_version = "V1" ->
            IF FormatRaisesKeyError(oidc_config.issuer_configuration)
            THEN [ok |-> FALSE, issuer |-> <<>>,
                  message |-> "Issuer configuration missing tenantid placeholder"]
            ELSE [ok |-> TRUE, message |-> "",
                  issuer |-> FormatIssuer(oidc_config.issuer_configuration, tenant_id)]
      [] token_version = "V2" ->
            [ok |-> TRUE, message |-> "", issuer |-> IssuerV2Of(tenant_id)]
      [] OTHER ->
            [ok |-> FALSE, issuer |-> <<>>, message |-> "Unsupported token version"]

\* A lookup that takes the first key of the set whatever its kid.
FindSigningKey_AnyKid(keys, header_kid) ==
    IF keys = <<>> THEN NoKey ELSE Head(keys)

\* The loop of lines 390-394: the first key whose kid (None when the record
\* has none) equals the header's kid (None when the header has none).
RECURSIVE FindSigningKey(_, _)
FindSigningKey(keys, header_kid) ==
    IF keys = <<>> THEN NoKey
    ELSE IF Head(keys).kid = header_kid THEN Head(keys)
         ELSE FindSigningKey(Tail(keys), header_kid)

\* jwt.decode with verify_signature, verify_exp, verify_nbf, verify_iat,
\* verify_aud and verify_iss: the signature first, then iat, nbf, exp, aud
\* and iss, the first failure raising. nread counts the fields it looked at.
VerifyOrder == <<"sig", "iat", "nbf", "exp", "aud", "iss">>

JwtDecode(v, expected_audience, expected_issuer) ==
    CASE v.sig # "valid" ->
            [exc |-> "JWTError", msg |-> "Signature verification failed.", nread |-> 1]
      [] v.sig = "valid" /\ v.iat # "ok" ->
            [exc |-> "JWTClaimsError", msg |-> "Issued At claim (iat) must be an integer.",
             nread |-> 2]
      [] v.sig = "valid" /\ v.iat = "ok" /\ v.nbf # "ok" ->
            [exc |-> "JWTClaimsError", msg |-> "The token is not yet valid (nbf)", nread |-> 3]
      [] v.sig = "valid" /\ v.iat = "ok" /\ v.nbf = "ok" /\ v.exp # "ok" ->
            [exc |-> "ExpiredSignatureError", msg |-> "Signature has expired.", nread |-> 4]
      [] v.sig = "valid" /\ v.iat = "ok" /\ v.nbf = "ok" /\ v.exp = "ok"
            /\ v.aud # expected_audience ->
            [exc |-> "JWTClaimsError", msg |-> "Invalid audience", nread |-> 5]
      [] v.sig = "valid" /\ v.iat = "ok" /\ v.nbf = "ok" /\ v.exp = "ok"
            /\ v.aud = expected_audience /\ v.iss # expected_issuer ->
            [exc |-> "JWTClaimsError", msg |-> "Invalid issuer", nread |-> 6]
      [] OTHER -> [exc |-> "", msg |-> "", nread |-> 6]

\* The except clauses without the one for ExpiredSignatureError, which then
\* is caught as the JWTError it is.
HandleValidationException_NoExpiredClause(exc, msg) ==
    CASE exc = "JWTClaimsError" ->
            IF msg = "Invalid audience"
            THEN [error |-> "AuthenticationException",
                  message |-> "Invalid token claims: " \o msg]
            ELSE [error |-> "UnboundLocalError", message |-> "error_message"]
      [] OTHER ->
            [error |-> "AuthenticationException",
             message |-> "Token validation failed: " \o msg]

\* The except clauses of _validate_aad_token_common (lines 436-453): what
\* leaves the function for an exception raised inside its try block. The
\* JWTClaimsError clause binds error_message only for "Invalid audience" and
\* then logs it, so every other claims error leaves as UnboundLocalError.
HandleValidationException(exc, msg) ==
    CASE exc = "ExpiredSignatureError" ->
            [error |-> "AuthenticationException", message |-> "Token has expired"]
      [] exc = "JWTClaimsError" ->
            IF msg = "Invalid audience"
            THEN [error |-> "AuthenticationException",
                  message |-> "Invalid token claims: " \o msg]
            ELSE [error |-> "UnboundLocalError", message |-> "error_message"]
      [] OTHER ->
            [error |-> "AuthenticationException",
             message |-> "Token validation failed: " \o msg]

\* _validate_app_only without the two _validate_no_claim calls.
ValidateAppOnly_NoAbsenceCheck(c, is_app_only) ==
    IF is_app_only
    THEN CASE c.idtyp = Absent -> [message |-> "Missing claim idtyp", nread |-> 1]
           [] c.idtyp # Absent /\ c.idtyp # "app" ->
                [message |-> "expecting an app-only token", nread |-> 1]
           [] c.idtyp = "app" /\ c.oid = Absent ->
                [message |-> "Missing claim oid", nread |-> 2]
           [] OTHER -> [message |-> "", nread |-> 3]
    ELSE CASE c.scp = AbsentSeq -> [message |-> "Missing claim scp", nread |-> 2]
           [] OTHER -> [message |-> "", nread |-> 2]

\* _validate_app_only on the claims it reads, in the order it reads them:
\* [message, nread], message "" when the shape is the expected one.
ShapeOrder(is_app_only) ==
    IF is_app_only THEN <<"idtyp", "oid", "scp">> ELSE <<"idtyp", "scp">>

ValidateAppOnly(c, is_app_only) ==
    IF is_app_only
    THEN CASE c.idtyp = Absent -> [message |-> "Missing claim idtyp", nread |-> 1]
           [] c.idtyp # Absent /\ c.idtyp # "app" ->
                [message |-> "expecting an app-only token", nread |-> 1]
           [] c.idtyp = "app" /\ c.oid = Absent ->
                [message |-> "Missing claim oid", nread |-> 2]
           [] c.idtyp = "app" /\ c.oid # Absent /\ c.scp # AbsentSeq ->
                [message |-> "Unexpected token format", nread |-> 3]
           [] OTHER -> [message |-> "", nread |-> 3]
    ELSE CASE c.idtyp # Absent -> [message |-> "Unexpected token format", nread |-> 1]
           [] c.idtyp = Absent /\ c.scp = AbsentSeq ->
                [message |-> "Missing claim scp", nread |-> 2]
           [] OTHER -> [message |-> "", nread |-> 2]

\* _extract_scopes_from_claims: the words of scp, then the roles.
ExtractScopesFromClaims(c) ==
    (IF c.scp = AbsentSeq THEN <<>> ELSE Split(c.scp))
        \o (IF c.roles = AbsentSeq THEN <<>> ELSE c.roles)

\* _validate_any_scope passes: any(scope in token_scopes for scope in allowed_scopes)
HasAnyScope(c, allowed_scopes) ==
    LET token_scopes == ExtractScopesFromClaims(c)
    IN  \E i \in DOMAIN allowed_scopes :
            \E j \in DOMAIN token_scopes : token_scopes[j] = allowed_scopes[i]

\* _validate_claim_value passes: the claim exists and, when an expected value
\* is given, its string form equals it (claim values are strings here).
ClaimValueOk(value, expected_value) ==
    /\ value # Absent
    /\ (expected_value # NoneStr => value = expected_value)

\* A check that only asks for the claim to exist.
ClaimOneOfValuesOk_ExistsOnly(value, expected_values) == value # Absent

\* _validate_claim_one_of_values passes
ClaimOneOfValuesOk(value, expected_values) ==
    value # Absent /\ value \in expected_values

\* AuthorizationContext
AuthorizationContext(original_subject_token, tenant_object_id, claims) ==
    [original_subject_token |-> original_subject_token,
     tenant_object_id |-> tenant_object_id,
     claims |-> claims]

\* AuthorizationContext.has_subject_context
HasSubjectContext(ctx) == Truthy(ctx.original_subject_token)

\* The context of lines 272-275, returned when there is no subject token.
ContextWithoutSubject(require_tenant_id_header, tenant_id) ==
    IF require_tenant_id_header
    THEN AuthorizationContext(None, tenant_id, None)
    ELSE AuthorizationContext(None, NoneStr, None)

\* The context of lines 293-297. The claims of a context are named by the
\* token whose validated claims they are (None: the empty list).
ContextWithSubject(subject_token, tenant_id, subject_claims) ==
    AuthorizationContext(subject_token, tenant_id, subject_claims)

\* The context of lines 327-331.
BearerContext(token, tenant_id, claims) ==
    AuthorizationContext(Some(token), tenant_id, claims)

\* ------------------------------------------------------------------------
\* State
\* ------------------------------------------------------------------------

VARIABLES
    c_pc,       \* codec driver: "start", "generated", "received", "round_trip", "parsed"
    c_in,       \* the pair handed to generate
    c_header,   \* the header value handed to parse
    c_out,      \* what parse returned or raised
    pc,         \* position of the authentication call in the code
    req,        \* arguments of the call
    sat,        \* subject_and_app_token, the parsed header
    tokens,     \* per token text, the part of the token read so far
    loc,        \* locals of _authenticate and of _validate_aad_token_common
    oidc_configuration,  \* OpenIdConnectConfigurationManager.configuration
    result,     \* what the call returned or raised
    trace,      \* the steps the call has executed: <<who, step, outcome>>
    m_now,          \* time.time()
    m_last_updated, \* OpenIdConnectConfigurationManager.last_updated
    m_lock,         \* holder of OpenIdConnectConfigurationManager._lock
    m_running,      \* the task the event loop is running
    m_task,         \* per task, its get_configuration_async call
    m_bursts,       \* how many times the cache lifetime has gone by between calls
    m_fetches,      \* the upstream fetches made, in the order they started
    o_pc,       \* position of get_access_token_on_behalf_of
    o_in,       \* its arguments and what the provider answers
    o_out,      \* what it returned or raised
    o_calls,    \* the calls it made to the identity provider, in order
    a_apps,     \* AuthenticationService._msal_apps
    a_worker,   \* per worker, its _get_msal_app call
    a_loop,     \* the task the event loop thread is running
    a_built,    \* the ConfidentialClientApplication objects constructed
    s_pc,       \* position of the scope check
    s_in,       \* the claims and the allowed scopes handed to _validate_any_scope
    s_out,      \* what it returned or raised
    z_pc,       \* position of validate_permissions
    z_in,       \* its arguments and what the services it calls answer
    z_out,      \* what it returned or raised
    z_log,      \* the calls it made to other services, in order
    h_pc,       \* position of a request at the HTTP boundary
    h_in,       \* the route and the exception raised while serving it
    h_out,      \* the response sent
    d_first     \* the data-plane call a second call is compared with

codecVars == <<c_pc, c_in, c_header, c_out>>

authCallVars == <<pc, req, sat, tokens, loc, result, trace>>

authVars == <<pc, req, sat, tokens, loc, oidc_configuration, result, trace>>

mgrVars == <<m_now, m_last_updated, m_lock, m_running, m_task, m_bursts, m_fetches>>

oboVars == <<o_pc, o_in, o_out, o_calls>>

msalVars == <<a_apps, a_worker, a_loop, a_built>>

scopeVars == <<s_pc, s_in, s_out>>

authzVars == <<z_pc, z_in, z_out, z_log>>

httpVars == <<h_pc, h_in, h_out>>

twinVars == <<d_first>>

vars == <<c_pc, c_in, c_header, c_out,
          pc, req, sat, tokens, loc, oidc_configuration, result, trace,
          m_now, m_last_updated, m_lock, m_running, m_task, m_bursts, m_fetches,
          o_pc, o_in, o_out, o_calls,
          a_apps, a_worker, a_loop, a_built,
          s_pc, s_in, s_out,
          z_pc, z_in, z_out, z_log,
          h_pc, h_in, h_out,
          d_first>>

\* What an authentication call, a codec step, a configuration request, a
\* token exchange and a client lookup leave alone.
otherThanAuth ==
    <<codecVars, mgrVars, oboVars, msalVars, scopeVars, authzVars, httpVars, twinVars>>

otherThanCodec ==
    <<authVars, mgrVars, oboVars, msalVars, scopeVars, authzVars, httpVars, twinVars>>

otherThanMgr ==
    <<codecVars, authCallVars, oboVars, msalVars, scopeVars, authzVars, httpVars, twinVars>>

otherThanObo ==
    <<codecVars, authVars, mgrVars, msalVars, scopeVars, authzVars, httpVars, twinVars>>

otherThanMsal ==
    <<codecVars, authVars, mgrVars, oboVars, scopeVars, authzVars, httpVars, twinVars>>

otherThanScope ==
    <<codecVars, authVars, mgrVars, oboVars, msalVars, authzVars, httpVars, twinVars>>

otherThanAuthz ==
    <<codecVars, authVars, mgrVars, oboVars, msalVars, scopeVars, httpVars, twinVars>>

otherThanHttp ==
    <<codecVars, authVars, mgrVars, oboVars, msalVars, scopeVars, authzVars, twinVars>>

\* ------------------------------------------------------------------------
\* Values of the parts of the service that are at rest
\* ------------------------------------------------------------------------

\* Tasks of the event loop that request the OpenID Connect configuration.
Tasks == {"r1", "r2", "r3"}

NoTask == "none"

\* A task outside get_configuration_async. current_time is the local of line
\* 41; seen is the cache as the call found it on entry, before as it found it
\* at line 50; issuer and keys are what the two GETs returned and error what
\* the try block raised; ticks counts the time gone by in the burst, locked
\* and gets what the call did, waited whether the call under way had to wait
\* for the lock;
\* outcome, returned and left are how it ended and the cache it left.
NoCache == [configuration |-> NoConfig, last_updated |-> 0]

IdleTask ==
    [pc |-> "idle", current_time |-> 0,
     seen |-> NoCache, before |-> NoCache,
     issuer |-> <<>>, keys |-> <<>>, error |-> "", ticks |-> 0,
     locked |-> FALSE, waited |-> FALSE, gets |-> 0,
     outcome |-> "none", returned |-> NoConfig, left |-> NoCache]

MgrOff ==
    /\ m_now = 0
    /\ m_last_updated = 0
    /\ m_lock = NoTask
    /\ m_running = NoTask
    /\ m_task = [t \in Tasks |-> IdleTask]
    /\ m_bursts = 0
    /\ m_fetches = <<>>

\* What acquire_token_on_behalf_of answers: it raises, or returns a dict
\* with some of the keys error, error_description, suberror, claims and
\* access_token.
NoProviderAnswer ==
    [raises |-> FALSE, error |-> Absent, error_description |-> <<>>,
     suberror |-> Absent, claims |-> Absent, access_token |-> Absent]

NoOboInput ==
    [original_subject_token |-> None, tenant_object_id |-> NoneStr,
     client_secret |-> "", scopes |-> <<>>, answer |-> NoProviderAnswer]

NoOboOutput ==
    [status |-> "none", error |-> "", message |-> <<>>, access_token |-> Absent,
     claims_for_conditional_access |-> NoneStr,
     additional_scopes_to_consent |-> AbsentSeq]

OboOff ==
    /\ o_pc = "off"
    /\ o_in = NoOboInput
    /\ o_out = NoOboOutput
    /\ o_calls = <<>>

\* Callers of _get_msal_app: tasks of the event loop and threads of their own.
MsalTasks == {"k1", "k2"}

MsalThreads == {"h1", "h2"}

Workers == MsalTasks \cup MsalThreads

\* Keys of _msal_apps: the authority of a tenant, and the authority
\* "organizations" of the constructor.
Authorities == {<<AAD_INSTANCE_URL, "/", a>> : a \in Tenants \cup {"organizations"}}

\* No ConfidentialClientApplication object.
NoApp == 0

\* Line 51: the authority of a tenant.
AuthorityOf(tenant_id) == <<AAD_INSTANCE_URL, "/", tenant_id>>

\* Line 35: the authority the constructor registers.
default_authority == <<AAD_INSTANCE_URL, "/", "organizations">>

IdleWorker == [pc |-> "idle", authority |-> <<>>, app |-> NoApp, returned |-> NoApp]

MsalOff ==
    /\ a_apps = [a \in Authorities |-> NoApp]
    /\ a_worker = [w \in Workers |-> IdleWorker]
    /\ a_loop = NoTask
    /\ a_built = <<>>

ScopeOff ==
    /\ s_pc = "off"
    /\ s_in = <<>>
    /\ s_out = <<>>

AuthzOff ==
    /\ z_pc = "off"
    /\ z_in = <<>>
    /\ z_out = <<>>
    /\ z_log = <<>>

HttpOff ==
    /\ h_pc = "off"
    /\ h_in = <<>>
    /\ h_out = <<>>

\* ------------------------------------------------------------------------
\* Authentication calls
\* ------------------------------------------------------------------------

NoContext == AuthorizationContext(None, NoneStr, None)

NoResult == [status |-> "none", error |-> "", message |-> "", ctx |-> NoContext]

NoRequest ==
    [kind |-> "none", auth_header |-> None, tenant_id |-> NoneStr,
     require_subject_token |-> TRUE, require_tenant_id_header |-> TRUE,
     allowed_scopes |-> <<>>]

IdleLoc ==
    [role |-> "none", tok |-> <<>>, tid |-> "", ver |-> "", cfg |-> NoConfig,
     key |-> NoKey, issuer |-> <<>>, aud |-> "", payload |-> None,
     app_token_claims |-> None, app_token_app_id |-> "", subject_claims |-> None]

\* No earlier data-plane call is remembered.
NoFirst == [tenant_id |-> "", cfg |-> NoConfig, result |-> NoResult, seen |-> FALSE]

AuthIdle ==
    /\ pc = "idle"
    /\ req = NoRequest
    /\ sat = ParseError("")
    /\ tokens = [t \in AuthTokenTexts |-> UnreadToken]
    /\ loc = IdleLoc
    /\ result = NoResult
    /\ trace = <<>>
    /\ d_first = NoFirst

\* Header values of control-plane calls.
ControlHeaders ==
    { None, Some(<<>>),
      Some(GenerateAuthorizationHeaderValue(None, TokA)),
      Some(GenerateAuthorizationHeaderValue(Some(TokA), TokA)),
      Some(GenerateAuthorizationHeaderValue(Some(TokB), TokA)),
      Some(BearerScheme \o <<" ">> \o TokA) }

\* Header values of data-plane calls.
DataHeaders ==
    { None,
      Some(BearerScheme \o <<" ">> \o TokA),
      Some(BearerScheme \o <<" ", " ">> \o TokA \o <<" ">>),
      Some(BearerScheme \o TokA),
      Some(BearerScheme \o <<" ">>),
      Some(GenerateAuthorizationHeaderValue(None, TokA)) }

TenantHeaders == Tenants \cup {NoneStr, ""}

DataScopes == { <<>>, <<ITEM1_READ_ALL>>, <<ITEM1_READ_ALL, FABRIC_WORKLOAD_CONTROL>> }

\* What a token may hold in field f, given what the call has read of it.
Pick(t, f) == IF tokens[t][f] = UnreadOf(f) THEN Dom(f) ELSE {tokens[t][f]}

\* jwt.get_unverified_header fails on text that is no JWS.
PickWf(t) == IF t = <<>> THEN {"malformed"} ELSE Pick(t, "wf")

\* The call reads fields fs of token t as the values of c.
Reading(t, fs, c) ==
    tokens' = [tokens EXCEPT ![t] = [f \in DOMAIN @ |-> IF f \in fs THEN c[f] ELSE @[f]]]

Event(who, step, outcome) == <<who, step, outcome>>

\* The step passed; the call goes on at `next`.
Pass(next, who, step) ==
    /\ pc' = next
    /\ trace' = Append(trace, Event(who, step, "pass"))
    /\ UNCHANGED result

\* The step raised; the exception leaves the call.
Raise(error, message, who, step) ==
    /\ pc' = "done"
    /\ trace' = Append(trace, Event(who, step, "fail"))
    /\ result' = [status |-> "raised", error |-> error, message |-> message,
                  ctx |-> NoContext]

\* The call returns ctx.
Return(ctx, who, step) ==
    /\ pc' = "done"
    /\ trace' = Append(trace, Event(who, step, "pass"))
    /\ result' = [status |-> "returned", error |-> "", message |-> "", ctx |-> ctx]

\* An exception raised inside the try block of _validate_aad_token_common.
RaiseInValidation(exc, msg, step) ==
    LET h == HandleValidationException(exc, msg)
    IN  Raise(h.error, h.message, loc.role, step)

\* _validate_aad_token_common is entered for token text t.
EnterValidation(role, t) ==
    loc' = [loc EXCEPT !.role = role, !.tok = t, !.tid = "", !.ver = "",
                       !.cfg = NoConfig, !.key = NoKey, !.issuer = <<>>,
                       !.aud = "", !.payload = None]

\* A request arrives at a control-plane route.
CallControlPlane ==
    /\ pc = "idle"
    /\ \E h \in ControlHeaders, tn \in TenantHeaders, rs \in BOOLEAN, rt \in BOOLEAN :
        req' = [kind |-> "control", auth_header |-> h, tenant_id |-> tn,
                require_subject_token |-> rs, require_tenant_id_header |-> rt,
                allowed_scopes |-> subject_and_app_auth_allowed_scopes]
    /\ pc' = "cp_check_header"
    /\ UNCHANGED <<sat, tokens, loc, oidc_configuration, result, trace>>
    /\ UNCHANGED otherThanAuth

\* A request arrives at a data-plane route.
CallDataPlane ==
    /\ pc = "idle"
    /\ \E h \in DataHeaders, tn \in {NoneStr, "t1"}, sc \in DataScopes :
        req' = [kind |-> "data", auth_header |-> h, tenant_id |-> tn,
                require_subject_token |-> TRUE, require_tenant_id_header |-> TRUE,
                allowed_scopes |-> sc]
    /\ pc' = "dp_check_header"
    /\ UNCHANGED <<sat, tokens, loc, oidc_configuration, result, trace>>
    /\ UNCHANGED otherThanAuth

\* authenticate_control_plane_call, lines 78-80
CpCheckHeader ==
    /\ pc = "cp_check_header"
    /\ IF ~Truthy(req.auth_header)
       THEN Raise("AuthenticationException", "Missing or invalid Authorization header",
                  "call", "check_header")
       ELSE Pass("cp_check_tenant", "call", "check_header")
    /\ UNCHANGED <<req, sat, tokens, loc, oidc_configuration>>
    /\ UNCHANGED otherThanAuth

\* The tenant check of lines 82-84 dropped.
CpCheckTenant_NoCheck ==
    /\ pc = "cp_check_tenant"
    /\ Pass("cp_parse", "call", "check_tenant")
    /\ UNCHANGED <<req, sat, tokens, loc, oidc_configuration>>
    /\ UNCHANGED otherThanAuth

\* authenticate_control_plane_call, lines 82-84
CpCheckTenant ==
    /\ pc = "cp_check_tenant"
    /\ IF req.require_tenant_id_header /\ Falsy(req.tenant_id)
       THEN Raise("AuthenticationException", "tenant_id header is missing",
                  "call", "check_tenant")
       ELSE Pass("cp_parse", "call", "check_tenant")
    /\ UNCHANGED <<req, sat, tokens, loc, oidc_configuration>>
    /\ UNCHANGED otherThanAuth

\* authenticate_control_plane_call, lines 87-91
CpParse ==
    /\ pc = "cp_parse"
    /\ LET r == Parse(req.auth_header)
       IN  IF r.ok
           THEN sat' = r /\ Pass("auth_check_tenant", "call", "parse")
           ELSE sat' = sat /\ Raise(r.error, r.message, "call", "parse")
    /\ UNCHANGED <<req, tokens, loc, oidc_configuration>>
    /\ UNCHANGED otherThanAuth

\* _authenticate with the missing subject token reported before the app token
\* is looked at.
AuthCheckTenant_SubjectPresenceFirst ==
    /\ pc = "auth_check_tenant"
    /\ IF req.require_tenant_id_header /\ Falsy(req.tenant_id)
       THEN /\ Raise("AuthenticationException", "tenant_id header is missing",
                     "call", "auth_check_tenant")
            /\ UNCHANGED loc
       ELSE IF ~Truthy(sat.subject_token) /\ req.require_subject_token
            THEN /\ Raise("AuthenticationException",
                          "SubjectAndAppToken is missing subject token",
                          "call", "subject_present")
                 /\ UNCHANGED loc
            ELSE /\ Pass("v_decode", "call", "auth_check_tenant")
                 /\ EnterValidation("app", sat.app_token)
    /\ UNCHANGED <<req, sat, tokens, oidc_configuration>>
    /\ UNCHANGED otherThanAuth

\* _authenticate, lines 244-248: the tenant check again, then the app token
\* enters validation.
AuthCheckTenant ==
    /\ pc = "auth_check_tenant"
    /\ IF req.require_tenant_id_header /\ Falsy(req.tenant_id)
       THEN /\ Raise("AuthenticationException", "tenant_id header is missing",
                     "call", "auth_check_tenant")
            /\ UNCHANGED loc
       ELSE /\ Pass("v_decode", "call", "auth_check_tenant")
            /\ EnterValidation("app", sat.app_token)
    /\ UNCHANGED <<req, sat, tokens, oidc_configuration>>
    /\ UNCHANGED otherThanAuth

\* ------------------------------------------------------------------------
\* _validate_aad_token_common, one action per step of its try block
\* ------------------------------------------------------------------------

InValidation == loc.role \in {"app", "subject", "bearer"}

IsAppOnly == loc.role = "app"

\* Lines 372-375: the header and the claims are decoded without verification.
VDecode ==
    /\ pc = "v_decode"
    /\ \E wf \in PickWf(loc.tok) :
        IF wf = "malformed"
        THEN /\ Reading(loc.tok, {"wf"}, [wf |-> wf])
             /\ RaiseInValidation("JWTError", "Error decoding token headers.", "decode")
        ELSE \E kid \in Pick(loc.tok, "kid") :
                /\ Reading(loc.tok, {"wf", "kid"}, [wf |-> wf, kid |-> kid])
                /\ Pass("v_tid", loc.role, "decode")
    /\ UNCHANGED <<req, sat, loc, oidc_configuration>>
    /\ UNCHANGED otherThanAuth

\* Lines 377-381: the tid claim must exist and be truthy.
VTid ==
    /\ pc = "v_tid"
    /\ \E tid \in Pick(loc.tok, "tid") :
        /\ Reading(loc.tok, {"tid"}, [tid |-> tid])
        /\ IF tid = Absent
           THEN /\ RaiseInValidation("AuthenticationException", "Missing claim tid", "tid")
                /\ UNCHANGED loc
           ELSE IF tid = ""
                THEN /\ RaiseInValidation("AuthenticationException",
                                          "Token is missing 'tid' claim.", "tid")
                     /\ UNCHANGED loc
                ELSE /\ loc' = [loc EXCEPT !.tid = tid]
                     /\ Pass("v_ver", loc.role, "tid")
    /\ UNCHANGED <<req, sat, oidc_configuration>>
    /\ UNCHANGED otherThanAuth

\* Line 384: _get_token_version(unverified_claims_list)
VVer ==
    /\ pc = "v_ver"
    /\ \E ver \in Pick(loc.tok, "ver") :
        /\ Reading(loc.tok, {"ver"}, [ver |-> ver])
        /\ IF ver = Absent
           THEN /\ RaiseInValidation("AuthenticationException", "Missing claim ver", "ver")
                /\ UNCHANGED loc
           ELSE IF TokenVersionOf(ver) = "unsupported"
                THEN /\ RaiseInValidation("AuthenticationException",
                                          "Unsupported token version", "ver")
                     /\ UNCHANGED loc
                ELSE /\ loc' = [loc EXCEPT !.ver = TokenVersionOf(ver)]
                     /\ Pass("v_getconfig", loc.role, "ver")
    /\ UNCHANGED <<req, sat, oidc_configuration>>
    /\ UNCHANGED otherThanAuth

\* Line 388: await self.openid_manager.get_configuration_async(). Whether the
\* cached configuration is still within its lifetime, and whether a fetch
\* succeeds, are drawn here.
VGetConfigCached ==
    /\ pc = "v_getconfig"
    /\ oidc_configuration.present
    /\ loc' = [loc EXCEPT !.cfg = oidc_configuration]
    /\ Pass("v_findkey", loc.role, "getconfig")
    /\ UNCHANGED <<req, sat, tokens, oidc_configuration>>
    /\ UNCHANGED otherThanAuth

VGetConfigRefreshed ==
    /\ pc = "v_getconfig"
    /\ \E c \in Configs :
        /\ oidc_configuration' = c
        /\ loc' = [loc EXCEPT !.cfg = c]
    /\ pc' = "v_findkey"
    /\ trace' = trace \o <<Event(loc.role, "fetch", "ok"), Event(loc.role, "getconfig", "pass")>>
    /\ UNCHANGED <<req, sat, tokens, result>>
    /\ UNCHANGED otherThanAuth

VGetConfigFetchFailed ==
    /\ pc = "v_getconfig"
    /\ IF oidc_configuration.present
       THEN /\ loc' = [loc EXCEPT !.cfg = oidc_configuration]
            /\ pc' = "v_findkey"
            /\ trace' = trace \o <<Event(loc.role, "fetch", "error"),
                                   Event(loc.role, "getconfig", "pass")>>
            /\ UNCHANGED result
       ELSE /\ UNCHANGED loc
            /\ LET h == HandleValidationException("HTTPError", "fetch failed")
               IN  /\ pc' = "done"
                   /\ trace' = trace \o <<Event(loc.role, "fetch", "error"),
                                          Event(loc.role, "getconfig", "fail")>>
                   /\ result' = [status |-> "raised", error |-> h.error,
                                 message |-> h.message, ctx |-> NoContext]
    /\ UNCHANGED <<req, sat, tokens, oidc_configuration>>
    /\ UNCHANGED otherThanAuth

\* Lines 390-398 with a refresh of the configuration and a second lookup
\* when the key is not found.
VFindKey_RefreshAndRetry ==
    /\ pc = "v_findkey"
    /\ LET key == FindSigningKey(loc.cfg.signing_keys, tokens[loc.tok].kid)
       IN  IF key = NoKey
           THEN /\ pc' = "v_getconfig"
                /\ trace' = Append(trace, Event(loc.role, "findkey", "retry"))
                /\ UNCHANGED <<loc, result>>
           ELSE /\ loc' = [loc EXCEPT !.key = key]
                /\ Pass("v_issuer", loc.role, "findkey")
    /\ UNCHANGED <<req, sat, tokens, oidc_configuration>>
    /\ UNCHANGED otherThanAuth

\* Lines 390-398: the signing key is looked up by the header's kid.
VFindKey ==
    /\ pc = "v_findkey"
    /\ LET key == FindSigningKey(loc.cfg.signing_keys, tokens[loc.tok].kid)
       IN  IF key = NoKey
           THEN /\ RaiseInValidation("AuthenticationException",
                                     "Token signing key not found", "findkey")
                /\ UNCHANGED loc
           ELSE /\ loc' = [loc EXCEPT !.key = key]
                /\ Pass("v_issuer", loc.role, "findkey")
    /\ UNCHANGED <<req, sat, tokens, oidc_configuration>>
    /\ UNCHANGED otherThanAuth

\* Lines 400-403: the expected issuer
VIssuer ==
    /\ pc = "v_issuer"
    /\ LET r == GetExpectedIssuer(loc.cfg, loc.ver, loc.tid)
       IN  IF ~r.ok
           THEN /\ RaiseInValidation("AuthenticationException", r.message, "issuer")
                /\ UNCHANGED loc
           ELSE IF r.issuer = <<>>
                THEN /\ RaiseInValidation("AuthenticationException",
                                          "Expected issuer not found", "issuer")
                     /\ UNCHANGED loc
                ELSE /\ loc' = [loc EXCEPT !.issuer = r.issuer]
                     /\ Pass("v_audience", loc.role, "issuer")
    /\ UNCHANGED <<req, sat, tokens, oidc_configuration>>
    /\ UNCHANGED otherThanAuth

\* Line 405: the expected audience
VAudience ==
    /\ pc = "v_audience"
    /\ loc' = [loc EXCEPT !.aud = ExpectedAudience(loc.ver)]
    /\ Pass("v_verify", loc.role, "audience")
    /\ UNCHANGED <<req, sat, tokens, oidc_configuration>>
    /\ UNCHANGED otherThanAuth

\* The fields jwt.decode may find in token t: field i is drawn only when the
\* fields before it passed (v holds what was drawn so far).
RECURSIVE VerifyDraws(_, _, _, _, _)
VerifyDraws(t, i, v, expected_audience, expected_issuer) ==
    IF i > Len(VerifyOrder) THEN {v}
    ELSE UNION { LET w == [v EXCEPT ![VerifyOrder[i]] = x]
                     d == JwtDecode(w, expected_audience, expected_issuer)
                 IN  IF d.exc # "" /\ d.nread = i
                     THEN {w}
                     ELSE VerifyDraws(t, i + 1, w, expected_audience, expected_issuer)
                 : x \in Pick(t, VerifyOrder[i]) }

\* Lines 409-427: jwt.decode verifies the token and returns its payload.
VVerify ==
    /\ pc = "v_verify"
    /\ \E v \in VerifyDraws(loc.tok, 1, tokens[loc.tok], loc.aud, loc.issuer) :
        LET d == JwtDecode(v, loc.aud, loc.issuer)
        IN  /\ Reading(loc.tok, {VerifyOrder[i] : i \in 1..d.nread}, v)
            /\ IF d.exc # ""
               THEN /\ RaiseInValidation(d.exc, d.msg, "verify")
                    /\ UNCHANGED loc
               ELSE /\ loc' = [loc EXCEPT !.payload = Some(loc.tok)]
                    /\ Pass("v_appidclaim", loc.role, "verify")
    /\ UNCHANGED <<req, sat, oidc_configuration>>
    /\ UNCHANGED otherThanAuth

\* Lines 429-430: the app-id claim of the token's version must exist.
VAppIdClaim ==
    /\ pc = "v_appidclaim"
    /\ LET name == AppIdClaimName(loc.ver)
       IN  \E a \in Pick(loc.tok, name) :
            /\ Reading(loc.tok, {name}, [n \in {name} |-> a])
            /\ IF a = Absent
               THEN RaiseInValidation("AuthenticationException", "Missing claim " \o name,
                                      "appidclaim")
               ELSE Pass("v_shape", loc.role, "appidclaim")
    /\ UNCHANGED <<req, sat, loc, oidc_configuration>>
    /\ UNCHANGED otherThanAuth

\* Where the caller of _validate_aad_token_common goes on with the claims.
AfterValidation(role) ==
    CASE role = "app" -> "auth_app_version"
      [] role = "subject" -> "auth_subject_version"
      [] OTHER -> "bearer_tid"

\* The claims _validate_app_only may find in token t, drawn as it reads them.
RECURSIVE ShapeDraws(_, _, _, _)
ShapeDraws(t, i, c, is_app_only) ==
    IF i > Len(ShapeOrder(is_app_only)) THEN {c}
    ELSE UNION { LET w == [c EXCEPT ![ShapeOrder(is_app_only)[i]] = x]
                     r == ValidateAppOnly(w, is_app_only)
                 IN  IF r.message # "" /\ r.nread = i
                     THEN {w}
                     ELSE ShapeDraws(t, i + 1, w, is_app_only)
                 : x \in Pick(t, ShapeOrder(is_app_only)[i]) }

\* Lines 432-434: _validate_app_only, then the claims are returned.
VShape ==
    /\ pc = "v_shape"
    /\ \E c \in ShapeDraws(loc.tok, 1, tokens[loc.tok], IsAppOnly) :
        LET r == ValidateAppOnly(c, IsAppOnly)
            order == ShapeOrder(IsAppOnly)
        IN  /\ Reading(loc.tok, {order[i] : i \in 1..r.nread}, c)
            /\ IF r.message # ""
               THEN /\ RaiseInValidation("AuthenticationException", r.message, "shape")
                    /\ UNCHANGED loc
               ELSE /\ loc' = IF loc.role = "app"
                              THEN [loc EXCEPT !.app_token_claims = loc.payload]
                              ELSE [loc EXCEPT !.subject_claims = loc.payload]
                    /\ pc' = AfterValidation(loc.role)
                    /\ trace' = trace \o <<Event(loc.role, "shape", "pass"),
                                           Event(loc.role, "accepted", "pass")>>
                    /\ UNCHANGED result
    /\ UNCHANGED <<req, sat, oidc_configuration>>
    /\ UNCHANGED otherThanAuth

\* ------------------------------------------------------------------------
\* _authenticate after the app token was validated
\* ------------------------------------------------------------------------

AppTok == loc.app_token_claims.v

SubjectTok == loc.subject_claims.v

\* Line 249: _get_token_version(app_token_claims)
AuthAppVersion ==
    /\ pc = "auth_app_version"
    /\ IF TokenVersionOf(tokens[AppTok].ver) = "unsupported"
       THEN Raise("AuthenticationException", "Unsupported token version",
                  "call", "app_version")
       ELSE Pass("auth_app_appid", "call", "app_version")
    /\ UNCHANGED <<req, sat, tokens, loc, oidc_configuration>>
    /\ UNCHANGED otherThanAuth

\* Lines 252-259: the app-id claim of the app token is one of the two
\* first-party application ids.
AuthAppAppId ==
    /\ pc = "auth_app_appid"
    /\ LET name == AppIdClaimName(TokenVersionOf(tokens[AppTok].ver))
           value == tokens[AppTok][name]
       IN  IF ClaimOneOfValuesOk(value, {FABRIC_BACKEND_APP_ID,
                                         FABRIC_CLIENT_FOR_WORKLOADS_APP_ID})
           THEN /\ loc' = [loc EXCEPT !.app_token_app_id = value]
                /\ Pass("auth_app_tid", "call", "app_appid")
           ELSE /\ UNCHANGED loc
                /\ Raise("AuthenticationException",
                         "app-only token must belong to Fabric BE or Fabric client for workloads",
                         "call", "app_appid")
    /\ UNCHANGED <<req, sat, tokens, oidc_configuration>>
    /\ UNCHANGED otherThanAuth

\* Lines 262-263: the app token is of the publisher's tenant.
AuthAppTid ==
    /\ pc = "auth_app_tid"
    /\ IF ClaimValueOk(tokens[AppTok].tid, publisher_tenant_id)
       THEN Pass("auth_subject_present", "call", "app_tid")
       ELSE Raise("AuthenticationException", "app token must be in the publisher's tenant",
                  "call", "app_tid")
    /\ UNCHANGED <<req, sat, tokens, loc, oidc_configuration>>
    /\ UNCHANGED otherThanAuth

\* The decision of lines 266-275 with the require_subject_token test dropped.
AuthSubjectPresent_NeverRequired ==
    /\ pc = "auth_subject_present"
    /\ IF ~Truthy(sat.subject_token)
       THEN /\ Return(ContextWithoutSubject(req.require_tenant_id_header, req.tenant_id),
                      "call", "subject_present")
            /\ UNCHANGED loc
       ELSE /\ Pass("v_decode", "call", "subject_present")
            /\ EnterValidation("subject", sat.subject_token.v)
    /\ UNCHANGED <<req, sat, tokens, oidc_configuration>>
    /\ UNCHANGED otherThanAuth

\* Lines 266-278: without a subject token the call ends here; with one the
\* subject token enters validation.
AuthSubjectPresent ==
    /\ pc = "auth_subject_present"
    /\ IF ~Truthy(sat.subject_token)
       THEN /\ IF req.require_subject_token
               THEN Raise("AuthenticationException",
                          "SubjectAndAppToken is missing subject token",
                          "call", "subject_present")
               ELSE Return(ContextWithoutSubject(req.require_tenant_id_header, req.tenant_id),
                           "call", "subject_present")
            /\ UNCHANGED loc
       ELSE /\ Pass("v_decode", "call", "subject_present")
            /\ EnterValidation("subject", sat.subject_token.v)
    /\ UNCHANGED <<req, sat, tokens, oidc_configuration>>
    /\ UNCHANGED otherThanAuth

\* Line 279: _get_token_version(subject_claims)
AuthSubjectVersion ==
    /\ pc = "auth_subject_version"
    /\ IF TokenVersionOf(tokens[SubjectTok].ver) = "unsupported"
       THEN Raise("AuthenticationException", "Unsupported token version",
                  "call", "subject_version")
       ELSE Pass("auth_subject_appid", "call", "subject_version")
    /\ UNCHANGED <<req, sat, tokens, loc, oidc_configuration>>
    /\ UNCHANGED otherThanAuth

\* The comparison of lines 282-284 dropped.
AuthSubjectAppId_NoComparison ==
    /\ pc = "auth_subject_appid"
    /\ Pass("auth_subject_tid", "call", "subject_appid")
    /\ UNCHANGED <<req, sat, tokens, loc, oidc_configuration>>
    /\ UNCHANGED otherThanAuth

\* Lines 282-284: both tokens belong to the same application.
AuthSubjectAppId ==
    /\ pc = "auth_subject_appid"
    /\ LET name == AppIdClaimName(TokenVersionOf(tokens[SubjectTok].ver))
       IN  IF ClaimValueOk(tokens[SubjectTok][name], loc.app_token_app_id)
           THEN Pass("auth_subject_tid", "call", "subject_appid")
           ELSE Raise("AuthenticationException",
                      "subject and app tokens should belong to same application",
                      "call", "subject_appid")
    /\ UNCHANGED <<req, sat, tokens, loc, oidc_configuration>>
    /\ UNCHANGED otherThanAuth

\* Line 287: the subject token is of the tenant of the request.
AuthSubjectTid ==
    /\ pc = "auth_subject_tid"
    /\ IF ClaimValueOk(tokens[SubjectTok].tid, req.tenant_id)
       THEN Pass("auth_subject_scope", "call", "subject_tid")
       ELSE Raise("AuthenticationException",
                  "subject tokens must belong to the subject's tenant",
                  "call", "subject_tid")
    /\ UNCHANGED <<req, sat, tokens, loc, oidc_configuration>>
    /\ UNCHANGED otherThanAuth

\* Lines 290-299: the scopes, then the context is returned.
AuthSubjectScope ==
    /\ pc = "auth_subject_scope"
    /\ \E roles \in Pick(SubjectTok, "roles") :
        /\ Reading(SubjectTok, {"roles"}, [roles |-> roles])
        /\ IF HasAnyScope([scp |-> tokens[SubjectTok].scp, roles |-> roles],
                          req.allowed_scopes)
           THEN Return(ContextWithSubject(sat.subject_token, req.tenant_id,
                                          loc.subject_claims),
                       "call", "subject_scope")
           ELSE Raise("AuthenticationException",
                      "Workload's Entra ID application is missing required scopes",
                      "call", "subject_scope")
    /\ UNCHANGED <<req, sat, loc, oidc_configuration>>
    /\ UNCHANGED otherThanAuth

\* ------------------------------------------------------------------------
\* authenticate_data_plane_call and _authenticate_bearer
\* ------------------------------------------------------------------------

\* Lines 125-130 asking for the scheme alone, without the blank after it.
DpCheckHeader_SchemeOnly ==
    /\ pc = "dp_check_header"
    /\ IF ~Truthy(req.auth_header) \/ ~HasPrefix(req.auth_header.v, BearerScheme)
       THEN /\ Raise("AuthenticationException", "Missing or invalid Authorization header",
                     "call", "check_header")
            /\ UNCHANGED loc
       ELSE /\ Pass("v_decode", "call", "check_header")
            /\ EnterValidation("bearer",
                   Strip(SubSeq(req.auth_header.v, Len(BearerScheme) + 1,
                                Len(req.auth_header.v))))
    /\ UNCHANGED <<req, sat, tokens, oidc_configuration>>
    /\ UNCHANGED otherThanAuth

\* Lines 125-130: the header must start with "Bearer "; the token is the
\* rest of it after the scheme, stripped.
DpCheckHeader ==
    /\ pc = "dp_check_header"
    /\ IF ~Truthy(req.auth_header)
          \/ ~HasPrefix(req.auth_header.v, BearerScheme \o <<" ">>)
       THEN /\ Raise("AuthenticationException", "Missing or invalid Authorization header",
                     "call", "check_header")
            /\ UNCHANGED loc
       ELSE /\ Pass("v_decode", "call", "check_header")
            /\ EnterValidation("bearer",
                   Strip(SubSeq(req.auth_header.v, Len(BearerScheme) + 1,
                                Len(req.auth_header.v))))
    /\ UNCHANGED <<req, sat, tokens, oidc_configuration>>
    /\ UNCHANGED otherThanAuth

\* Line 321 followed by the comparison the control plane makes at line 287:
\* the tid claim must be the tenant_id of the request.
BearerTid_MatchesRequest ==
    /\ pc = "bearer_tid"
    /\ IF tokens[SubjectTok].tid = Absent
       THEN Raise("AuthenticationException", "Missing claim tid", "call", "bearer_tid")
       ELSE IF ~ClaimValueOk(tokens[SubjectTok].tid, req.tenant_id)
            THEN Raise("AuthenticationException",
                       "subject tokens must belong to the subject's tenant",
                       "call", "bearer_tid")
            ELSE Pass("bearer_scope", "call", "bearer_tid")
    /\ UNCHANGED <<req, sat, tokens, loc, oidc_configuration>>
    /\ UNCHANGED otherThanAuth

\* Line 321: the tid claim of the validated claims
BearerTid ==
    /\ pc = "bearer_tid"
    /\ IF tokens[SubjectTok].tid = Absent
       THEN Raise("AuthenticationException", "Missing claim tid", "call", "bearer_tid")
       ELSE Pass("bearer_scope", "call", "bearer_tid")
    /\ UNCHANGED <<req, sat, tokens, loc, oidc_configuration>>
    /\ UNCHANGED otherThanAuth

\* Lines 324-333: the scopes, then the context is returned.
BearerScope ==
    /\ pc = "bearer_scope"
    /\ \E roles \in Pick(SubjectTok, "roles") :
        /\ Reading(SubjectTok, {"roles"}, [roles |-> roles])
        /\ IF HasAnyScope([scp |-> tokens[SubjectTok].scp, roles |-> roles],
                          req.allowed_scopes)
           THEN Return(BearerContext(loc.tok, tokens[SubjectTok].tid, loc.subject_claims),
                       "call", "bearer_scope")
           ELSE Raise("AuthenticationException",
                      "Workload's Entra ID application is missing required scopes",
                      "call", "bearer_scope")
    /\ UNCHANGED <<req, sat, loc, oidc_configuration>>
    /\ UNCHANGED otherThanAuth

\* The request is over; the service waits for the next one. The cached
\* OpenID Connect configuration outlives the request.
Finish ==
    /\ pc = "done"
    /\ pc' = "idle"
    /\ req' = NoRequest
    /\ sat' = ParseError("")
    /\ tokens' = [t \in AuthTokenTexts |-> UnreadToken]
    /\ loc' = IdleLoc
    /\ result' = NoResult
    /\ trace' = <<>>
    /\ UNCHANGED oidc_configuration
    /\ UNCHANGED otherThanAuth

\* ------------------------------------------------------------------------
\* Specifications
\* ------------------------------------------------------------------------

Init ==
    /\ AuthIdle
    /\ oidc_configuration = NoConfig
    /\ c_pc = "off"
    /\ c_in = <<None, <<>>>>
    /\ c_header = None
    /\ c_out = ParseError("")
    /\ MgrOff /\ OboOff /\ MsalOff
    /\ ScopeOff /\ AuthzOff /\ HttpOff

Next ==
    \/ CallControlPlane
    \/ CallDataPlane
    \/ CpCheckHeader
    \/ CpCheckTenant
    \/ CpParse
    \/ AuthCheckTenant
    \/ VDecode
    \/ VTid
    \/ VVer
    \/ VGetConfigCached
    \/ VGetConfigRefreshed
    \/ VGetConfigFetchFailed
    \/ VFindKey
    \/ VIssuer
    \/ VAudience
    \/ VVerify
    \/ VAppIdClaim
    \/ VShape
    \/ AuthAppVersion
    \/ AuthAppAppId
    \/ AuthAppTid
    \/ AuthSubjectPresent
    \/ AuthSubjectVersion
    \/ AuthSubjectAppId
    \/ AuthSubjectTid
    \/ AuthSubjectScope
    \/ DpCheckHeader
    \/ BearerTid
    \/ BearerScope
    \/ Finish

\* Authentication of control-plane and data-plane requests, one at a time.
Spec == Init /\ [][Next]_vars

\* ------------------------------------------------------------------------
\* The header codec on its own
\* ------------------------------------------------------------------------

CodecInit ==
    /\ c_pc = "start"
    /\ c_in = <<None, <<>>>>
    /\ c_header = None
    /\ c_out = ParseError("")
    /\ AuthIdle
    /\ oidc_configuration = NoConfig
    /\ MgrOff /\ OboOff /\ MsalOff
    /\ ScopeOff /\ AuthzOff /\ HttpOff

\* A caller builds a header from a pair of tokens.
CodecGenerate ==
    /\ c_pc = "start"
    /\ \E in \in GenerateInputs :
        /\ c_in' = in
        /\ c_header' = Some(GenerateAuthorizationHeaderValue(in[1], in[2]))
    /\ c_pc' = "generated"
    /\ UNCHANGED c_out
    /\ UNCHANGED otherThanCodec

\* A header value arrives from the network.
CodecReceive ==
    /\ c_pc = "start"
    /\ \E h \in RawHeaders : c_header' = h
    /\ c_pc' = "received"
    /\ UNCHANGED <<c_in, c_out>>
    /\ UNCHANGED otherThanCodec

\* The header value is parsed.
CodecParse ==
    /\ c_pc \in {"generated", "received"}
    /\ c_out' = Parse(c_header)
    /\ c_pc' = IF c_pc = "generated" THEN "round_trip" ELSE "parsed"
    /\ UNCHANGED <<c_in, c_header>>
    /\ UNCHANGED otherThanCodec

CodecNext == CodecGenerate \/ CodecReceive \/ CodecParse

SpecCodec == CodecInit /\ [][CodecNext]_vars

\* ------------------------------------------------------------------------
\* get_access_token_on_behalf_of
\* ------------------------------------------------------------------------

\* str.lower() of a piece of text
Lower(piece) == IF piece = "Consent_Required" THEN "consent_required" ELSE piece

\* word in text.lower(), the text given as its pieces
MentionsLowered(text, word) == \E i \in DOMAIN text : Lower(text[i]) = word

\* The test of line 171 without its suberror clause.
IsUIRequired_CodeOnly(answer) ==
    answer.error \in {"interaction_required", "consent_required", "invalid_grant"}

\* Line 171: the errors that need the user
IsUIRequired(answer) ==
    \/ answer.error \in {"interaction_required", "consent_required", "invalid_grant"}
    \/ answer.suberror = "conditional_access"

\* Lines 172-179 with the scopes attached by the error code alone.
UIRequiredException_ScopesByCode(answer, scopes) ==
    [status |-> "raised", error |-> "AuthenticationUIRequiredException",
     message |-> answer.error_description, access_token |-> Absent,
     claims_for_conditional_access |->
        IF answer.claims \notin {Absent, ""} THEN answer.claims ELSE NoneStr,
     additional_scopes_to_consent |->
        IF answer.error = "consent_required" THEN scopes ELSE AbsentSeq]

\* Lines 172-179: the AuthenticationUIRequiredException that is raised
UIRequiredException(answer, scopes) ==
    [status |-> "raised", error |-> "AuthenticationUIRequiredException",
     message |-> answer.error_description, access_token |-> Absent,
     claims_for_conditional_access |->
        IF answer.claims \notin {Absent, ""} THEN answer.claims ELSE NoneStr,
     additional_scopes_to_consent |->
        IF \/ answer.error = "consent_required"
           \/ MentionsLowered(answer.error_description, "consent_required")
        THEN scopes ELSE AbsentSeq]

\* raise AuthenticationException(message)
OboFailure(message) ==
    [status |-> "raised", error |-> "AuthenticationException", message |-> message,
     access_token |-> Absent, claims_for_conditional_access |-> NoneStr,
     additional_scopes_to_consent |-> AbsentSeq]

\* return result["access_token"]
OboSuccess(access_token) ==
    [status |-> "returned", error |-> "", message |-> <<>>,
     access_token |-> access_token, claims_for_conditional_access |-> NoneStr,
     additional_scopes_to_consent |-> AbsentSeq]

OboErrorCodes ==
    {"interaction_required", "consent_required", "invalid_grant", "invalid_client"}

OboDescriptions ==
    { <<>>, <<"User interaction required">>,
      <<"AADSTS65001: ", "Consent_Required", " for the application">> }

\* What the identity provider may answer to the exchange.
OboAnswers ==
    { [NoProviderAnswer EXCEPT !.raises = TRUE] }
    \cup [raises : {FALSE},
          error : OboErrorCodes \cup {Absent},
          error_description : OboDescriptions,
          suberror : {Absent, "conditional_access", "message_only"},
          claims : {Absent, "", "claims-challenge"},
          access_token : {Absent, "", "obo-access-token"}]

OboContexts ==
    [original_subject_token : {None, Some(<<>>), Some(TokB)},
     tenant_object_id : {NoneStr, "", "t1"}]

\* What the exchange leaves alone when it looks its client up.
otherThanOboAndApps ==
    <<a_worker, a_loop, codecVars, authVars, mgrVars, scopeVars, authzVars, httpVars, twinVars>>

\* _get_msal_app(tenant_id) run from call to return, as the event loop runs
\* it: the client of the authority is constructed and stored if the map has
\* none.
GetMsalApp(tenant_id) ==
    LET authority == AuthorityOf(tenant_id)
    IN  IF a_apps[authority] = NoApp
        THEN /\ a_apps' = [a_apps EXCEPT ![authority] = Len(a_built) + 1]
             /\ a_built' = Append(a_built, <<authority, Len(a_built) + 1>>)
        ELSE UNCHANGED <<a_apps, a_built>>

\* A call of `method` on the client _get_msal_app returned.
ProviderCall(method, tenant_id) == <<method, a_apps'[AuthorityOf(tenant_id)]>>

\* The exchange is asked for.
OboCall ==
    /\ o_pc = "start"
    /\ \E ctx \in OboContexts, secret \in {"", "client-secret"}, answer \in OboAnswers :
        o_in' = [original_subject_token |-> ctx.original_subject_token,
                 tenant_object_id |-> ctx.tenant_object_id,
                 client_secret |-> secret,
                 scopes |-> <<ITEM1_READ_ALL>>,
                 answer |-> answer]
    /\ o_pc' = "check_subject_token"
    /\ UNCHANGED o_out
    /\ UNCHANGED o_calls
    /\ UNCHANGED otherThanObo

\* Lines 141-143 with the client of the tenant looked up before the check.
OboCheckSubjectToken_ClientFirst ==
    /\ o_pc = "check_subject_token"
    /\ IF o_in.tenant_object_id \in Tenants
       THEN GetMsalApp(o_in.tenant_object_id)
       ELSE UNCHANGED <<a_apps, a_built>>
    /\ IF ~Truthy(o_in.original_subject_token)
       THEN /\ o_out' = OboFailure(<<"OBO flow requires an original subject token.">>)
            /\ o_pc' = "done"
       ELSE /\ o_pc' = "check_client"
            /\ UNCHANGED o_out
    /\ UNCHANGED <<o_in, o_calls>>
    /\ UNCHANGED otherThanOboAndApps

\* Lines 141-143
OboCheckSubjectToken ==
    /\ o_pc = "check_subject_token"
    /\ IF ~Truthy(o_in.original_subject_token)
       THEN /\ o_out' = OboFailure(<<"OBO flow requires an original subject token.">>)
            /\ o_pc' = "done"
       ELSE /\ o_pc' = "check_client"
            /\ UNCHANGED o_out
    /\ UNCHANGED o_in
    /\ UNCHANGED o_calls
    /\ UNCHANGED otherThanObo

\* Lines 145-147
OboCheckClient ==
    /\ o_pc = "check_client"
    /\ IF client_id = "" \/ o_in.client_secret = ""
       THEN /\ o_out' = OboFailure(<<"MSAL client not configured for OBO flow.">>)
            /\ o_pc' = "done"
       ELSE /\ o_pc' = "check_tenant"
            /\ UNCHANGED o_out
    /\ UNCHANGED o_in
    /\ UNCHANGED o_calls
    /\ UNCHANGED otherThanObo

\* Lines 149-151
OboCheckTenant ==
    /\ o_pc = "check_tenant"
    /\ IF Falsy(o_in.tenant_object_id)
       THEN /\ o_out' = OboFailure(<<"Cannot determine tenant authority for OBO flow.">>)
            /\ o_pc' = "done"
       ELSE /\ o_pc' = "acquire"
            /\ UNCHANGED o_out
    /\ UNCHANGED o_in
    /\ UNCHANGED o_calls
    /\ UNCHANGED otherThanObo

\* Lines 153-164 with the exchange tried a second time when it raised.
OboAcquire_RetryOnError ==
    /\ o_pc = "acquire"
    /\ GetMsalApp(o_in.tenant_object_id)
    /\ o_calls' = Append(o_calls,
            ProviderCall("acquire_token_on_behalf_of", o_in.tenant_object_id))
    /\ IF o_in.answer.raises
       THEN IF o_calls = <<>>
            THEN /\ o_pc' = "acquire"
                 /\ UNCHANGED o_out
            ELSE /\ o_out' = OboFailure(<<"OBO token acquisition failed: ">>)
                 /\ o_pc' = "done"
       ELSE /\ o_pc' = "classify"
            /\ UNCHANGED o_out
    /\ UNCHANGED o_in
    /\ UNCHANGED otherThanOboAndApps

\* Lines 153-164: the client of the tenant is looked up and makes the
\* exchange.
OboAcquire ==
    /\ o_pc = "acquire"
    /\ GetMsalApp(o_in.tenant_object_id)
    /\ o_calls' = Append(o_calls,
            ProviderCall("acquire_token_on_behalf_of", o_in.tenant_object_id))
    /\ IF o_in.answer.raises
       THEN /\ o_out' = OboFailure(<<"OBO token acquisition failed: ">>)
            /\ o_pc' = "done"
       ELSE /\ o_pc' = "classify"
            /\ UNCHANGED o_out
    /\ UNCHANGED o_in
    /\ UNCHANGED otherThanOboAndApps

\* Lines 166-180: a result with the key error
OboClassify ==
    /\ o_pc = "classify"
    /\ IF o_in.answer.error # Absent
       THEN /\ o_out' = IF IsUIRequired(o_in.answer)
                         THEN UIRequiredException(o_in.answer, o_in.scopes)
                         ELSE OboFailure(<<"Error acquiring token: ", o_in.answer.error>>)
            /\ o_pc' = "done"
       ELSE /\ o_pc' = "access_token"
            /\ UNCHANGED o_out
    /\ UNCHANGED o_in
    /\ UNCHANGED o_calls
    /\ UNCHANGED otherThanObo

\* Lines 182-187 as return result.get("access_token").
OboAccessToken_NoCheck ==
    /\ o_pc = "access_token"
    /\ o_out' = [status |-> "returned", error |-> "", message |-> <<>>,
                 access_token |-> o_in.answer.access_token,
                 claims_for_conditional_access |-> NoneStr,
                 additional_scopes_to_consent |-> AbsentSeq]
    /\ o_pc' = "done"
    /\ UNCHANGED o_in
    /\ UNCHANGED o_calls
    /\ UNCHANGED otherThanObo

\* Lines 182-187
OboAccessToken ==
    /\ o_pc = "access_token"
    /\ o_out' = IF o_in.answer.access_token = Absent
                THEN OboFailure(<<"Access token not found in OBO result">>)
                ELSE OboSuccess(o_in.answer.access_token)
    /\ o_pc' = "done"
    /\ UNCHANGED o_in
    /\ UNCHANGED o_calls
    /\ UNCHANGED otherThanObo

\* ------------------------------------------------------------------------
\* get_fabric_s2s_token
\* ------------------------------------------------------------------------

\* What acquire_token_for_client answers: it raises MsalServiceError or
\* another exception, or returns a dict with some of the keys error and
\* access_token.
S2SAnswers ==
    { [NoProviderAnswer EXCEPT !.raises = TRUE, !.error = e] :
            e \in {"MsalServiceError", "ConnectionError"} }
    \cup { [NoProviderAnswer EXCEPT !.error = e, !.access_token = t] :
            e \in {Absent, "invalid_client"}, t \in {Absent, "s2s-access-token"} }

\* raise Exception(f"An error occurred: {str(e)}"), lines 231-233
S2SFailure(message) == [OboFailure(message) EXCEPT !.error = "Exception"]

\* The service-to-service token is asked for.
S2SCall ==
    /\ o_pc = "start"
    /\ \E answer \in S2SAnswers : o_in' = [NoOboInput EXCEPT !.answer = answer]
    /\ o_pc' = "s2s_acquire"
    /\ UNCHANGED <<o_out, o_calls>>
    /\ UNCHANGED otherThanObo

\* Lines 213-219 and 229-233: the client of the publisher's tenant is looked
\* up and asked for a token; MsalServiceError leaves as
\* AuthenticationException, any other exception as Exception.
S2SAcquire ==
    /\ o_pc = "s2s_acquire"
    /\ GetMsalApp(publisher_tenant_id)
    /\ o_calls' = Append(o_calls, ProviderCall("acquire_token_for_client", publisher_tenant_id))
    /\ IF o_in.answer.raises
       THEN /\ o_out' = IF o_in.answer.error = "MsalServiceError"
                         THEN OboFailure(<<"MSAL exception: ">>)
                         ELSE S2SFailure(<<"An error occurred: ">>)
            /\ o_pc' = "s2s_done"
       ELSE /\ o_pc' = "s2s_classify"
            /\ UNCHANGED o_out
    /\ UNCHANGED o_in
    /\ UNCHANGED otherThanOboAndApps

\* Lines 221-233: a result with the key error fails; result["access_token"]
\* is returned, its KeyError leaving as Exception.
S2SClassify ==
    /\ o_pc = "s2s_classify"
    /\ o_out' = IF o_in.answer.error # Absent
                THEN OboFailure(<<"MSAL exception: ", o_in.answer.error>>)
                ELSE IF o_in.answer.access_token = Absent
                     THEN S2SFailure(<<"An error occurred: ", "'access_token'">>)
                     ELSE OboSuccess(o_in.answer.access_token)
    /\ o_pc' = "s2s_done"
    /\ UNCHANGED <<o_in, o_calls>>
    /\ UNCHANGED otherThanObo

\* The service-to-service call is over.
S2SFinish ==
    /\ o_pc = "s2s_done"
    /\ o_pc' = "start"
    /\ o_in' = NoOboInput
    /\ o_out' = NoOboOutput
    /\ o_calls' = <<>>
    /\ UNCHANGED otherThanObo

\* The exchange is over.
OboFinish ==
    /\ o_pc = "done"
    /\ o_pc' = "start"
    /\ o_in' = NoOboInput
    /\ o_out' = NoOboOutput
    /\ o_calls' = <<>>
    /\ UNCHANGED otherThanObo

OboInit ==
    /\ o_pc = "start"
    /\ o_in = NoOboInput
    /\ o_out = NoOboOutput
    /\ c_pc = "off"
    /\ c_in = <<None, <<>>>>
    /\ c_header = None
    /\ c_out = ParseError("")
    /\ AuthIdle
    /\ oidc_configuration = NoConfig
    /\ o_calls = <<>>
    /\ a_apps = [a \in Authorities |-> IF a = default_authority THEN 1 ELSE NoApp]
    /\ a_built = << <<default_authority, 1>> >>
    /\ a_worker = [w \in Workers |-> IdleWorker]
    /\ a_loop = NoTask
    /\ MgrOff
    /\ ScopeOff /\ AuthzOff /\ HttpOff

OboNext ==
    \/ OboCall
    \/ OboCheckSubjectToken
    \/ OboCheckClient
    \/ OboCheckTenant
    \/ OboAcquire
    \/ OboClassify
    \/ OboAccessToken
    \/ S2SCall
    \/ S2SAcquire
    \/ S2SClassify
    \/ S2SFinish
    \/ OboFinish

\* Token exchanges, on behalf of a user and for the service itself, one at a
\* time.
SpecObo == OboInit /\ [][OboNext]_vars

\* ------------------------------------------------------------------------
\* _get_msal_app (authentication.py, lines 49-60) and the constructor's entry
\* of _msal_apps (lines 29-44). The function is synchronous: a task of the
\* event loop runs it from call to return before another task runs, while a
\* thread may be preempted between any two of its steps, the construction of
\* a ConfidentialClientApplication included.
\* ------------------------------------------------------------------------

\* msal.ConfidentialClientApplication(...): each construction is a new
\* object, named by its rank among the constructions.
NewApp == Len(a_built) + 1

\* The worker may take a step: a thread always, a task when it runs on the
\* event loop.
MayStep(w) == w \in MsalThreads \/ a_loop = w

\* _get_msal_app(tenant_id) is called; line 51.
MsalCall(w) ==
    /\ a_worker[w].pc = "idle"
    /\ w \in MsalTasks => a_loop = NoTask
    /\ \E tenant_id \in Tenants :
        a_worker' = [a_worker EXCEPT ![w] = [@ EXCEPT !.pc = "check",
                                                     !.authority = AuthorityOf(tenant_id)]]
    /\ a_loop' = IF w \in MsalTasks THEN w ELSE a_loop
    /\ UNCHANGED <<a_apps, a_built>>
    /\ UNCHANGED otherThanMsal

\* Line 53: if authority not in self._msal_apps
MsalCheck(w) ==
    /\ a_worker[w].pc = "check"
    /\ MayStep(w)
    /\ a_worker' = [a_worker EXCEPT ![w].pc =
                        IF a_apps[a_worker[w].authority] = NoApp
                        THEN "construct" ELSE "return"]
    /\ UNCHANGED <<a_apps, a_loop, a_built>>
    /\ UNCHANGED otherThanMsal

\* Lines 54-58, the right-hand side: the application is constructed.
MsalConstruct(w) ==
    /\ a_worker[w].pc = "construct"
    /\ MayStep(w)
    /\ a_built' = Append(a_built, <<a_worker[w].authority, NewApp>>)
    /\ a_worker' = [a_worker EXCEPT ![w] = [@ EXCEPT !.pc = "store", !.app = NewApp]]
    /\ UNCHANGED <<a_apps, a_loop>>
    /\ UNCHANGED otherThanMsal

\* Line 54, the assignment: self._msal_apps[authority] = ...
MsalStore(w) ==
    /\ a_worker[w].pc = "store"
    /\ MayStep(w)
    /\ a_apps' = [a_apps EXCEPT ![a_worker[w].authority] = a_worker[w].app]
    /\ a_worker' = [a_worker EXCEPT ![w].pc = "return"]
    /\ UNCHANGED <<a_loop, a_built>>
    /\ UNCHANGED otherThanMsal

\* Line 60: return self._msal_apps[authority]
MsalReturn(w) ==
    /\ a_worker[w].pc = "return"
    /\ MayStep(w)
    /\ a_worker' = [a_worker EXCEPT ![w] =
                        [@ EXCEPT !.pc = "done", !.returned = a_apps[a_worker[w].authority]]]
    /\ a_loop' = IF w \in MsalTasks THEN NoTask ELSE a_loop
    /\ UNCHANGED <<a_apps, a_built>>
    /\ UNCHANGED otherThanMsal

\* The service after its constructor (lines 29-44): client id, secret and
\* publisher tenant are configured, so the default authority has its client.
MsalInit ==
    /\ a_apps = [a \in Authorities |-> IF a = default_authority THEN 1 ELSE NoApp]
    /\ a_built = << <<default_authority, 1>> >>
    /\ a_worker = [w \in Workers |-> IdleWorker]
    /\ a_loop = NoTask
    /\ AuthIdle
    /\ oidc_configuration = NoConfig
    /\ c_pc = "off"
    /\ c_in = <<None, <<>>>>
    /\ c_header = None
    /\ c_out = ParseError("")
    /\ MgrOff /\ OboOff
    /\ ScopeOff /\ AuthzOff /\ HttpOff

MsalNext ==
    \E w \in Workers :
        \/ MsalCall(w)
        \/ MsalCheck(w)
        \/ MsalConstruct(w)
        \/ MsalStore(w)
        \/ MsalReturn(w)

\* One burst of calls of _get_msal_app, one call per task and per thread.
SpecMsal == MsalInit /\ [][MsalNext]_vars

\* ------------------------------------------------------------------------
\* OpenIdConnectConfigurationManager.get_configuration_async
\* (open_id_connect_configuration.py, lines 37-89), called by several tasks
\* of one event loop. The loop runs one task at a time (m_running) and a task
\* gives way only at an await that suspends: a lock that is taken, and the
\* two GETs. self.configuration is oidc_configuration.
\* ------------------------------------------------------------------------

\* Line 30: the default of cache_duration_seconds, the one
\* get_openid_manager_service constructs the manager with.
cache_duration_seconds == 3600

\* Line 37: the default of timeout_seconds.
timeout_seconds == 5

\* How many timeouts' worth of time may go by while the calls of one burst
\* await their GETs.
MaxGetTicks == 1

\* How many times the cache lifetime goes by between bursts of calls.
MaxElapses == 1

\* Documents of the identity provider, which change from one burst of calls
\* to the next: the issuer of the metadata and the keys of the JWKS (none
\* when the document has no "keys", line 16).
UpstreamIssuer(generation) ==
    IF generation = 0 THEN <<STS, "{tenantid}", "/">> ELSE <<STS, publisher_tenant_id, "/">>

UpstreamKeys(generation) ==
    CASE generation = 0 -> <<SigningKey("k1")>>
      [] generation = 1 -> <<SigningKey("k1"), SigningKey("k2")>>
      [] OTHER -> <<>>

\* What the try block of lines 54-82 can raise: raise_for_status or the
\* transport (lines 57-61, 69-70), and the missing jwks_uri (lines 65-67).
MetadataErrors == {"HTTPError", "ValueError"}

JwksErrors == {"HTTPError"}

\* The cache as a reader finds it.
Cache == [configuration |-> oidc_configuration, last_updated |-> m_last_updated]

\* Lines 44 and 50: self.configuration and
\* current_time - self.last_updated < self.cache_duration_seconds
CacheIsValid(current_time) ==
    /\ oidc_configuration.present
    /\ current_time - m_last_updated < cache_duration_seconds

\* Line 50 without its test of the cache.
RecheckIsValid_Never(current_time) == FALSE

\* Line 50: the test of line 44 again, with the current_time of line 41.
RecheckIsValid(current_time) == CacheIsValid(current_time)

\* The call of task t ends: what it returns or raises, and the cache it leaves.
Ended(t, outcome, returned, error) ==
    [m_task[t] EXCEPT !.pc = "done", !.outcome = outcome, !.returned = returned,
                      !.error = error, !.waited = FALSE,
                      !.left = [configuration |-> oidc_configuration',
                                last_updated |-> m_last_updated']]

\* The fetch task t has under way, in m_fetches.
FetchOf(t) ==
    CHOOSE i \in DOMAIN m_fetches :
        /\ m_fetches[i].by = t
        /\ m_fetches[i].burst = m_bursts

\* Line 41: the call starts and reads the clock.
MCall(t) ==
    /\ m_running = NoTask
    /\ m_task[t].pc = "idle"
    /\ m_task' = [m_task EXCEPT ![t] = [@ EXCEPT !.pc = "fast_check",
                                                 !.current_time = m_now,
                                                 !.seen = Cache]]
    /\ m_running' = t
    /\ UNCHANGED <<oidc_configuration, m_now, m_last_updated, m_lock, m_bursts, m_fetches>>
    /\ UNCHANGED otherThanMgr

\* Lines 44-45 as a call that goes to the lock whatever the cache holds.
MFastCheck_AlwaysLock(t) ==
    /\ m_running = t
    /\ m_task[t].pc = "fast_check"
    /\ m_task' = [m_task EXCEPT ![t].pc = "acquire"]
    /\ UNCHANGED <<oidc_configuration, m_now, m_last_updated, m_lock, m_running,
                   m_bursts, m_fetches>>
    /\ UNCHANGED otherThanMgr

\* Lines 44-45: a valid cache is returned at once.
MFastCheck(t) ==
    /\ m_running = t
    /\ m_task[t].pc = "fast_check"
    /\ UNCHANGED <<oidc_configuration, m_last_updated>>
    /\ IF CacheIsValid(m_task[t].current_time)
       THEN /\ m_task' = [m_task EXCEPT ![t] = Ended(t, "cached", oidc_configuration, "")]
            /\ m_running' = NoTask
       ELSE /\ m_task' = [m_task EXCEPT ![t].pc = "acquire"]
            /\ UNCHANGED m_running
    /\ UNCHANGED <<m_now, m_lock, m_bursts, m_fetches>>
    /\ UNCHANGED otherThanMgr

\* Line 48: async with self._lock. A free lock is taken without giving way;
\* otherwise the task waits.
MAcquire(t) ==
    /\ m_running = t
    /\ m_task[t].pc = "acquire"
    /\ IF m_lock = NoTask
       THEN /\ m_lock' = t
            /\ m_task' = [m_task EXCEPT ![t] = [@ EXCEPT !.pc = "recheck", !.locked = TRUE]]
            /\ UNCHANGED m_running
       ELSE /\ m_task' = [m_task EXCEPT ![t] = [@ EXCEPT !.pc = "waiting", !.waited = TRUE]]
            /\ m_running' = NoTask
            /\ UNCHANGED m_lock
    /\ UNCHANGED <<oidc_configuration, m_now, m_last_updated, m_bursts, m_fetches>>
    /\ UNCHANGED otherThanMgr

\* Line 48: a waiting task gets the released lock and runs on.
MWake(t) ==
    /\ m_running = NoTask
    /\ m_task[t].pc = "waiting"
    /\ m_lock = NoTask
    /\ m_lock' = t
    /\ m_task' = [m_task EXCEPT ![t] = [@ EXCEPT !.pc = "recheck", !.locked = TRUE]]
    /\ m_running' = t
    /\ UNCHANGED <<oidc_configuration, m_now, m_last_updated, m_bursts, m_fetches>>
    /\ UNCHANGED otherThanMgr

\* Lines 50-57: the cache is tested again; if it is not valid the metadata
\* GET is sent and the task awaits the response.
MRecheck(t) ==
    /\ m_running = t
    /\ m_task[t].pc = "recheck"
    /\ UNCHANGED <<oidc_configuration, m_last_updated>>
    /\ IF RecheckIsValid(m_task[t].current_time)
       THEN /\ m_task' = [m_task EXCEPT ![t] = Ended(t, "rechecked", oidc_configuration, "")]
            /\ m_lock' = NoTask
            /\ UNCHANGED m_fetches
       ELSE /\ m_task' = [m_task EXCEPT ![t] = [@ EXCEPT !.pc = "get_metadata",
                                                        !.before = Cache, !.gets = 1]]
            /\ m_fetches' = Append(m_fetches,
                                [by |-> t, burst |-> m_bursts, at |-> m_task[t].current_time,
                                 gets |-> <<"metadata">>, status |-> "pending",
                                 issuer |-> <<>>, keys |-> <<>>, error |-> ""])
            /\ UNCHANGED m_lock
    /\ m_running' = NoTask
    /\ UNCHANGED <<m_now, m_bursts>>
    /\ UNCHANGED otherThanMgr

\* Time goes by while task t awaits a response.
MTick(t) ==
    /\ m_running = NoTask
    /\ m_task[t].pc \in {"get_metadata", "get_jwks"}
    /\ \A u \in Tasks : m_task[u].ticks < MaxGetTicks
    /\ m_now' = m_now + timeout_seconds
    /\ m_task' = [u \in Tasks |-> [m_task[u] EXCEPT !.ticks = @ + 1]]
    /\ UNCHANGED <<oidc_configuration, m_last_updated, m_lock, m_running, m_bursts, m_fetches>>
    /\ UNCHANGED otherThanMgr

\* Lines 57-69: the metadata arrives with a jwks_uri; the JWKS GET is sent
\* and the task awaits again.
MMetadataOk(t) ==
    /\ m_running = NoTask
    /\ m_task[t].pc = "get_metadata"
    /\ \E issuer \in {UpstreamIssuer(m_bursts)} :
        /\ m_task' = [m_task EXCEPT ![t] = [@ EXCEPT !.pc = "get_jwks",
                                                     !.issuer = issuer, !.gets = 2]]
        /\ m_fetches' = [m_fetches EXCEPT ![FetchOf(t)] =
                            [@ EXCEPT !.gets = <<"metadata", "jwks">>, !.issuer = issuer]]
    /\ UNCHANGED <<oidc_configuration, m_now, m_last_updated, m_lock, m_running, m_bursts>>
    /\ UNCHANGED otherThanMgr

\* Lines 57-67: the metadata GET fails, or the metadata has no jwks_uri.
MMetadataFailed(t) ==
    /\ m_running = NoTask
    /\ m_task[t].pc = "get_metadata"
    /\ \E e \in MetadataErrors :
        /\ m_task' = [m_task EXCEPT ![t] = [@ EXCEPT !.pc = "handler", !.error = e]]
        /\ m_fetches' = [m_fetches EXCEPT ![FetchOf(t)] =
                            [@ EXCEPT !.status = "failed", !.error = e]]
    /\ m_running' = t
    /\ UNCHANGED <<oidc_configuration, m_now, m_last_updated, m_lock, m_bursts>>
    /\ UNCHANGED otherThanMgr

\* Lines 69-71: the JWKS arrives.
MJwksOk(t) ==
    /\ m_running = NoTask
    /\ m_task[t].pc = "get_jwks"
    /\ \E keys \in {UpstreamKeys(m_bursts)} :
        /\ m_task' = [m_task EXCEPT ![t] = [@ EXCEPT !.pc = "store_configuration",
                                                     !.keys = keys]]
        /\ m_fetches' = [m_fetches EXCEPT ![FetchOf(t)] =
                            [@ EXCEPT !.status = "ok", !.keys = keys]]
    /\ m_running' = t
    /\ UNCHANGED <<oidc_configuration, m_now, m_last_updated, m_lock, m_bursts>>
    /\ UNCHANGED otherThanMgr

\* Lines 69-71: the JWKS GET fails.
MJwksFailed(t) ==
    /\ m_running = NoTask
    /\ m_task[t].pc = "get_jwks"
    /\ \E e \in JwksErrors :
        /\ m_task' = [m_task EXCEPT ![t] = [@ EXCEPT !.pc = "handler", !.error = e]]
        /\ m_fetches' = [m_fetches EXCEPT ![FetchOf(t)] =
                            [@ EXCEPT !.status = "failed", !.error = e]]
    /\ m_running' = t
    /\ UNCHANGED <<oidc_configuration, m_now, m_last_updated, m_lock, m_bursts>>
    /\ UNCHANGED otherThanMgr

\* Lines 74-77 followed by an await that suspends the task.
MStoreConfiguration_Yielding(t) ==
    /\ m_running = t
    /\ m_task[t].pc = "store_configuration"
    /\ oidc_configuration' = Config(m_task[t].issuer, m_task[t].keys)
    /\ m_task' = [m_task EXCEPT ![t].pc = "store_last_updated"]
    /\ m_running' = NoTask
    /\ UNCHANGED <<m_now, m_last_updated, m_lock, m_bursts, m_fetches>>
    /\ UNCHANGED otherThanMgr

\* Lines 74-77: self.configuration = OpenIdConnectConfiguration(...), the
\* object built whole (lines 14-16) before it is assigned.
MStoreConfiguration(t) ==
    /\ m_running = t
    /\ m_task[t].pc = "store_configuration"
    /\ oidc_configuration' = Config(m_task[t].issuer, m_task[t].keys)
    /\ m_task' = [m_task EXCEPT ![t].pc = "store_last_updated"]
    /\ UNCHANGED <<m_now, m_last_updated, m_lock, m_running, m_bursts, m_fetches>>
    /\ UNCHANGED otherThanMgr

\* Lines 79-82: self.last_updated = current_time; the configuration is
\* returned and the lock released.
MStoreLastUpdated(t) ==
    /\ m_running = t
    /\ m_task[t].pc = "store_last_updated"
    /\ m_last_updated' = m_task[t].current_time
    /\ UNCHANGED oidc_configuration
    /\ m_task' = [m_task EXCEPT ![t] = Ended(t, "refreshed", oidc_configuration, "")]
    /\ m_lock' = NoTask
    /\ m_running' = NoTask
    /\ UNCHANGED <<m_now, m_bursts, m_fetches>>
    /\ UNCHANGED otherThanMgr

\* Lines 84-89 as a handler that raises whatever the cache holds.
MHandler_AlwaysRaise(t) ==
    /\ m_running = t
    /\ m_task[t].pc = "handler"
    /\ UNCHANGED <<oidc_configuration, m_last_updated>>
    /\ m_task' = [m_task EXCEPT ![t] = Ended(t, "error", NoConfig, m_task[t].error)]
    /\ m_lock' = NoTask
    /\ m_running' = NoTask
    /\ UNCHANGED <<m_now, m_bursts, m_fetches>>
    /\ UNCHANGED otherThanMgr

\* Lines 84-89 as a handler that drops the cached configuration and raises.
MHandler_DropsCache(t) ==
    /\ m_running = t
    /\ m_task[t].pc = "handler"
    /\ oidc_configuration' = NoConfig
    /\ m_last_updated' = 0
    /\ m_task' = [m_task EXCEPT ![t] = Ended(t, "error", NoConfig, m_task[t].error)]
    /\ m_lock' = NoTask
    /\ m_running' = NoTask
    /\ UNCHANGED <<m_now, m_bursts, m_fetches>>
    /\ UNCHANGED otherThanMgr

\* Lines 84-89: the exception is raised again if there is no configuration,
\* otherwise the configuration at hand is returned; the lock is released.
MHandler(t) ==
    /\ m_running = t
    /\ m_task[t].pc = "handler"
    /\ UNCHANGED <<oidc_configuration, m_last_updated>>
    /\ m_task' = [m_task EXCEPT ![t] =
                    IF ~oidc_configuration.present
                    THEN Ended(t, "error", NoConfig, m_task[t].error)
                    ELSE Ended(t, "stale", oidc_configuration, "")]
    /\ m_lock' = NoTask
    /\ m_running' = NoTask
    /\ UNCHANGED <<m_now, m_bursts, m_fetches>>
    /\ UNCHANGED otherThanMgr

\* No call is under way; the cache lifetime goes by before the next calls,
\* which are calls of new requests. Of the fetches made so far the record
\* keeps those that succeeded, their requests being over.
MElapse ==
    /\ m_bursts < MaxElapses
    /\ \A t \in Tasks : m_task[t].pc \in {"idle", "done"}
    /\ \E t \in Tasks : m_task[t].pc = "done"
    /\ m_now' = m_now + cache_duration_seconds
    /\ m_bursts' = m_bursts + 1
    /\ m_task' = [t \in Tasks |-> IdleTask]
    /\ m_fetches' = LET kept == SelectSeq(m_fetches, LAMBDA f : f.status = "ok")
                    IN  [i \in DOMAIN kept |-> [kept[i] EXCEPT !.by = NoTask]]
    /\ UNCHANGED <<oidc_configuration, m_last_updated, m_lock, m_running>>
    /\ UNCHANGED otherThanMgr

\* The manager after its constructor (lines 30-35), at a time of day that
\* is at least a cache lifetime after the epoch.
MgrInit ==
    /\ oidc_configuration = NoConfig
    /\ m_last_updated = 0
    /\ m_now = cache_duration_seconds
    /\ m_lock = NoTask
    /\ m_running = NoTask
    /\ m_task = [t \in Tasks |-> IdleTask]
    /\ m_bursts = 0
    /\ m_fetches = <<>>
    /\ AuthIdle
    /\ c_pc = "off"
    /\ c_in = <<None, <<>>>>
    /\ c_header = None
    /\ c_out = ParseError("")
    /\ OboOff /\ MsalOff
    /\ ScopeOff /\ AuthzOff /\ HttpOff

MgrNext ==
    \/ MElapse
    \/ \E t \in Tasks :
        \/ MCall(t)
        \/ MFastCheck(t)
        \/ MAcquire(t)
        \/ MWake(t)
        \/ MRecheck(t)
        \/ MTick(t)
        \/ MMetadataOk(t)
        \/ MMetadataFailed(t)
        \/ MJwksOk(t)
        \/ MJwksFailed(t)
        \/ MStoreConfiguration(t)
        \/ MStoreLastUpdated(t)
        \/ MHandler(t)

\* Bursts of calls of get_configuration_async, one call per task and burst.
SpecOidc == MgrInit /\ [][MgrNext]_vars

\* ------------------------------------------------------------------------
\* Scope matching (_extract_scopes_from_claims, _validate_any_scope)
\* ------------------------------------------------------------------------

MaxScpLen == 3

MaxAllowed == 2

ITEM1_READ_WRITE_ALL == "Item1.ReadWrite.All"

\* A scope name is a text without blanks, held as its pieces: <<"a", "b">>
\* is the text ab.
ScopeNames == {ITEM1_READ_ALL, "item1.read.all", ITEM1_READ_WRITE_ALL,
               FABRIC_WORKLOAD_CONTROL}

Blanks == {" ", "\t"}

\* The value of a claim: missing from the token, null, a string (text, its
\* pieces), a list of strings (items), or a value of another type.
NoClaim == [kind |-> "absent", text |-> <<>>, items |-> <<>>]

NullValue == [kind |-> "null", text |-> <<>>, items |-> <<>>]

OtherValue == [kind |-> "other", text |-> <<>>, items |-> <<>>]

StrValue(text) == [kind |-> "str", text |-> text, items |-> <<>>]

ListValue(items) == [kind |-> "list", text |-> <<>>, items |-> items]

ScpClaims ==
    {NoClaim, NullValue, ListValue(<<<<ITEM1_READ_ALL>>>>)}
        \cup {StrValue(text) : text \in SeqsUpTo(ScopeNames \cup Blanks, MaxScpLen)}

RolesClaims ==
    {NoClaim, NullValue, OtherValue,
     StrValue(<<ITEM1_READ_ALL>>),
     StrValue(<<ITEM1_READ_ALL, " ", FABRIC_WORKLOAD_CONTROL>>),
     ListValue(<<>>),
     ListValue(<<<<ITEM1_READ_ALL>>>>),
     ListValue(<<<<"item1.read.all">>, <<FABRIC_WORKLOAD_CONTROL>>>>)}

AllowedScopeLists ==
    {[i \in DOMAIN names |-> <<names[i]>>] :
        names \in SeqsUpTo({ITEM1_READ_ALL, ITEM1_READ_WRITE_ALL,
                            FABRIC_WORKLOAD_CONTROL}, MaxAllowed)}

\* claim.value if claim.value else default: null, "" and [] are falsy
IsTruthy(value) ==
    CASE value.kind = "str" -> value.text # <<>>
      [] value.kind = "list" -> value.items # <<>>
      [] value.kind = "other" -> TRUE
      [] OTHER -> FALSE

\* str.split(): the maximal runs of pieces that are not blanks, in order.
RECURSIVE SplitWords(_, _)
SplitWords(text, word) ==
    IF text = <<>>
    THEN IF word = <<>> THEN <<>> ELSE <<word>>
    ELSE IF Head(text) \in Blanks
         THEN (IF word = <<>> THEN <<>> ELSE <<word>>) \o SplitWords(Tail(text), <<>>)
         ELSE SplitWords(Tail(text), Append(word, Head(text)))

\* Lines 518-522: the scp claim, when it is a string, split and stripped.
ScpScopes(scp) ==
    IF scp.kind = "absent" THEN <<>>
    ELSE LET scopes_str == IF IsTruthy(scp) THEN scp ELSE StrValue(<<>>)
         IN  IF scopes_str.kind = "str"
             THEN LET words == SplitWords(scopes_str.text, <<>>)
                  IN  [i \in DOMAIN words |-> Strip(words[i])]
             ELSE <<>>

\* Lines 524-530: the roles claim, a list extended or a string appended.
RolesScopes(roles) ==
    IF roles.kind = "absent" THEN <<>>
    ELSE LET value == IF IsTruthy(roles) THEN roles ELSE ListValue(<<>>)
         IN  CASE value.kind = "list" -> value.items
               [] value.kind = "str" -> <<value.text>>
               [] OTHER -> <<>>

\* _extract_scopes_from_claims
ExtractScopes(scp, roles) == ScpScopes(scp) \o RolesScopes(roles)

\* The test of line 539 comparing without regard to case.
AnyScopeIn_IgnoreCase(allowed_scopes, token_scopes) ==
    LET Fold(w) == [i \in DOMAIN w |-> IF w[i] = "item1.read.all" THEN ITEM1_READ_ALL ELSE w[i]]
    IN  \E i \in DOMAIN allowed_scopes :
            \E j \in DOMAIN token_scopes : Fold(token_scopes[j]) = Fold(allowed_scopes[i])

\* Line 539: any(scope in token_scopes for scope in allowed_scopes)
AnyScopeIn(allowed_scopes, token_scopes) ==
    \E i \in DOMAIN allowed_scopes :
        \E j \in DOMAIN token_scopes : token_scopes[j] = allowed_scopes[i]

\* The header codec at rest.
CodecOff ==
    /\ c_pc = "off"
    /\ c_in = <<None, <<>>>>
    /\ c_header = None
    /\ c_out = ParseError("")

NoScopeOutput == [status |-> "none", error |-> "", message |-> ""]

\* Line 536: the scopes of the token are extracted.
ScopeExtract ==
    /\ s_pc = "extract"
    /\ s_in' = [s_in EXCEPT !.token_scopes = ExtractScopes(s_in.scp, s_in.roles)]
    /\ s_pc' = "check"
    /\ UNCHANGED s_out
    /\ UNCHANGED otherThanScope

\* Lines 539-546: the test, and the error when it fails.
ScopeCheck ==
    /\ s_pc = "check"
    /\ s_out' = IF AnyScopeIn(s_in.allowed_scopes, s_in.token_scopes)
                THEN [status |-> "returned", error |-> "", message |-> ""]
                ELSE [status |-> "raised", error |-> "AuthenticationException",
                      message |-> "Workload's Entra ID application is missing required scopes"]
    /\ s_pc' = "done"
    /\ UNCHANGED s_in
    /\ UNCHANGED otherThanScope

ScopeInit ==
    /\ s_pc = "extract"
    /\ \E scp \in ScpClaims, roles \in RolesClaims, allowed_scopes \in AllowedScopeLists :
        s_in = [scp |-> scp, roles |-> roles, allowed_scopes |-> allowed_scopes,
                token_scopes |-> <<>>]
    /\ s_out = NoScopeOutput
    /\ CodecOff
    /\ AuthIdle
    /\ oidc_configuration = NoConfig
    /\ MgrOff /\ OboOff /\ MsalOff
    /\ AuthzOff /\ HttpOff

ScopeNext == ScopeExtract \/ ScopeCheck

SpecScope == ScopeInit /\ [][ScopeNext]_vars

\* ------------------------------------------------------------------------
\* Permission checks (AuthorizationHandler.validate_permissions) with the
\* composite token they build and the HTTP client they call
\* ------------------------------------------------------------------------

MaxRequired == 2

MaxReturned == 2

\* http_client.py, _make_request
max_retries == 3

Items == {"item1", "item2"}

\* The lists of at most n names.
ListsUpTo(names, n) == UNION {[1..k -> names] : k \in 0..n}

RequiredPermissionLists == ListsUpTo({"Read", "WRITE"}, MaxRequired)

ReturnedPermissionLists == ListsUpTo({"read", "Write"}, MaxReturned)

\* Access tokens the identity provider issues: JWTs.
OboTokens == {TokA, JwtPrefix \o <<"a", ".", "-", "_">>}

S2STokens == {TokB, JwtPrefix \o <<"b", ".", "b">>}

\* What get_access_token_on_behalf_of and get_fabric_s2s_token end with.
TokenReturned(token) == [status |-> "returned", error |-> "", token |-> token]

TokenRaised(error) == [status |-> "raised", error |-> error, token |-> <<>>]

OboOutcomes ==
    {TokenReturned(t) : t \in OboTokens}
        \cup {TokenRaised("AuthenticationUIRequiredException"),
              TokenRaised("AuthenticationException")}

S2SOutcomes ==
    {TokenReturned(t) : t \in S2STokens}
        \cup {TokenRaised("AuthenticationException"), TokenRaised("Exception")}

\* What the resolvepermissions endpoint answers to one request: a response
\* with a status and a body, or no response at all (httpx.RequestError).
NoResponse == [kind |-> "none", status |-> 0, json |-> FALSE, permissions |-> <<>>]

RequestError == [kind |-> "RequestError", status |-> 0, json |-> FALSE, permissions |-> <<>>]

Response(status, json, permissions) ==
    [kind |-> "response", status |-> status, json |-> json, permissions |-> permissions]

ErrorStatuses == {401, 403, 404, 429, 503}

ServerAnswers ==
    {RequestError, Response(200, FALSE, <<>>)}
        \cup {Response(200, TRUE, p) : p \in ReturnedPermissionLists}
        \cup {Response(s, FALSE, <<>>) : s \in ErrorStatuses}

\* response.raise_for_status() raises unless the status is 2xx
IsSuccess(status) == status \in 200..299

\* str.lower() of a permission name
LowerPermission(p) ==
    CASE p \in {"Read", "READ", "read"} -> "read"
      [] p \in {"Write", "WRITE", "write"} -> "write"
      [] p \in {"Execute", "EXECUTE", "execute"} -> "execute"
      [] OTHER -> p

\* Line 81 comparing the names as they are.
HasPermission_Exact(permissions, required_perm) ==
    \E i \in DOMAIN permissions : permissions[i] = required_perm

\* Line 81: any(perm.lower() == required_perm.lower() for perm in response.permissions)
HasPermission(permissions, required_perm) ==
    \E i \in DOMAIN permissions :
        LowerPermission(permissions[i]) = LowerPermission(required_perm)

\* Lines 79-82
MissingPermissions(permissions, required_permissions) ==
    SelectSeq(required_permissions, LAMBDA r : ~HasPermission(permissions, r))

NoEarlier == [i \in Items |-> "none"]

IdleCheck(earlier) ==
    [item |-> "", required_permissions |-> <<>>, token_obo |-> <<>>,
     service_principal_token |-> <<>>, subject_and_app_token |-> None,
     attempt |-> 0, response |-> NoResponse, earlier |-> earlier]

NoOutcome == [status |-> "none", error |-> "", message |-> ""]

Outcome(status, error, message) == [status |-> status, error |-> error, message |-> message]

ZRaise(error, message) ==
    /\ z_out' = Outcome("raised", error, message)
    /\ z_pc' = "done"

\* validate_permissions served from the outcome of an earlier call for the item.
ZCall_Cached ==
    /\ z_pc = "idle"
    /\ \E item \in Items, required_permissions \in RequiredPermissionLists :
        /\ z_in' = [z_in EXCEPT !.item = item,
                                !.required_permissions = required_permissions]
        /\ IF z_in.earlier[item] = "returned"
           THEN /\ z_out' = Outcome("returned", "", "")
                /\ z_pc' = "done"
           ELSE /\ z_pc' = "obo"
                /\ UNCHANGED z_out
    /\ UNCHANGED z_log
    /\ UNCHANGED otherThanAuthz

\* validate_permissions is called, lines 39-60.
ZCall ==
    /\ z_pc = "idle"
    /\ \E item \in Items, required_permissions \in RequiredPermissionLists :
        z_in' = [z_in EXCEPT !.item = item,
                             !.required_permissions = required_permissions]
    /\ z_pc' = "obo"
    /\ UNCHANGED z_log
    /\ UNCHANGED z_out
    /\ UNCHANGED otherThanAuthz

\* build_composite_token going on to the service token after a failed exchange.
ZObo_ContinueOnFailure ==
    /\ z_pc = "obo"
    /\ \E outcome \in OboOutcomes :
        /\ z_log' = Append(z_log, <<"obo", outcome.status, 0>>)
        /\ z_in' = [z_in EXCEPT !.token_obo = outcome.token]
        /\ z_pc' = "s2s"
        /\ UNCHANGED z_out
    /\ UNCHANGED otherThanAuthz

\* authorization.py 62-65 and authentication.py 198: the OBO exchange; its
\* exception leaves build_composite_token and validate_permissions.
ZObo ==
    /\ z_pc = "obo"
    /\ \E outcome \in OboOutcomes :
        /\ z_log' = Append(z_log, <<"obo", outcome.status, 0>>)
        /\ IF outcome.status = "returned"
           THEN /\ z_in' = [z_in EXCEPT !.token_obo = outcome.token]
                /\ z_pc' = "s2s"
                /\ UNCHANGED z_out
           ELSE /\ ZRaise(outcome.error, "OBO exchange failed")
                /\ UNCHANGED z_in
    /\ UNCHANGED otherThanAuthz

\* authentication.py 201: the service-to-service token
ZS2S ==
    /\ z_pc = "s2s"
    /\ \E outcome \in S2SOutcomes :
        /\ z_log' = Append(z_log, <<"s2s", outcome.status, 0>>)
        /\ IF outcome.status = "returned"
           THEN /\ z_in' = [z_in EXCEPT !.service_principal_token = outcome.token]
                /\ z_pc' = "generate"
                /\ UNCHANGED z_out
           ELSE /\ ZRaise(outcome.error, "S2S token request failed")
                /\ UNCHANGED z_in
    /\ UNCHANGED otherThanAuthz

\* authentication.py 204: the header value of the two tokens
ZGenerate ==
    /\ z_pc = "generate"
    /\ z_in' = [z_in EXCEPT !.subject_and_app_token =
                    Some(GenerateAuthorizationHeaderValue(Some(z_in.token_obo),
                                                          z_in.service_principal_token))]
    /\ z_log' = Append(z_log, <<"generate", "returned", 0>>)
    /\ z_pc' = "request"
    /\ UNCHANGED z_out
    /\ UNCHANGED otherThanAuthz

\* http_client.py 95-121, one turn of the loop of _make_request: the request,
\* raise_for_status, and the retry of a 5xx answer or of a request error; what
\* _make_request raises is handled at authorization.py 146-151.
ZRequest ==
    /\ z_pc = "request"
    /\ \E answer \in ServerAnswers :
        /\ z_log' = Append(z_log, <<"get", answer.kind, answer.status>>)
        /\ CASE answer.kind = "response" /\ IsSuccess(answer.status) ->
                    /\ z_in' = [z_in EXCEPT !.response = answer]
                    /\ z_pc' = "status"
                    /\ UNCHANGED z_out
             [] answer.kind = "response" /\ ~IsSuccess(answer.status) ->
                    IF answer.status >= 500 /\ z_in.attempt < max_retries - 1
                    THEN /\ z_in' = [z_in EXCEPT !.attempt = z_in.attempt + 1]
                         /\ UNCHANGED <<z_pc, z_out>>
                    ELSE /\ z_in' = [z_in EXCEPT !.response = answer]
                         /\ ZRaise("InternalErrorException",
                                   "Error communicating with Fabric API")
             [] OTHER ->
                    IF z_in.attempt < max_retries - 1
                    THEN /\ z_in' = [z_in EXCEPT !.attempt = z_in.attempt + 1]
                         /\ UNCHANGED <<z_pc, z_out>>
                    ELSE /\ z_in' = [z_in EXCEPT !.response = answer]
                         /\ ZRaise("InternalErrorException", "Unexpected error")
    /\ UNCHANGED otherThanAuthz

\* authorization.py 133-151: the status of the response _make_request
\* returned, then its body. The exceptions of lines 135 and 140 are raised
\* inside the try block and caught by the clause of line 149.
ZStatus ==
    /\ z_pc = "status"
    /\ CASE z_in.response.status = 429 ->
                ZRaise("InternalErrorException", "Unexpected error")
         [] z_in.response.status \in {401, 403} ->
                ZRaise("InternalErrorException", "Unexpected error")
         [] ~IsSuccess(z_in.response.status) ->
                ZRaise("InternalErrorException", "Error communicating with Fabric API")
         [] ~z_in.response.json ->
                ZRaise("InternalErrorException", "Unexpected error")
         [] OTHER ->
                /\ z_pc' = "check"
                /\ UNCHANGED z_out
    /\ UNCHANGED <<z_in, z_log>>
    /\ UNCHANGED otherThanAuthz

\* authorization.py 74-93: the permissions of the response against the
\* required ones.
ZCheck ==
    /\ z_pc = "check"
    /\ IF z_in.response.permissions = <<>>
       THEN ZRaise("UnauthorizedException", "Failed to resolve permissions")
       ELSE IF MissingPermissions(z_in.response.permissions,
                                  z_in.required_permissions) # <<>>
            THEN ZRaise("UnauthorizedException", "User does not have required permissions")
            ELSE /\ z_out' = Outcome("returned", "", "")
                 /\ z_pc' = "done"
    /\ UNCHANGED <<z_in, z_log>>
    /\ UNCHANGED otherThanAuthz

\* The check is over; the handler keeps nothing of it. The model remembers
\* how the last check of each item ended.
ZFinish ==
    /\ z_pc = "done"
    /\ z_in' = IdleCheck([z_in.earlier EXCEPT ![z_in.item] = z_out.status])
    /\ z_out' = NoOutcome
    /\ z_pc' = "idle"
    /\ z_log' = <<>>
    /\ UNCHANGED otherThanAuthz

AuthzInit ==
    /\ z_pc = "idle"
    /\ z_in = IdleCheck(NoEarlier)
    /\ z_out = NoOutcome
    /\ z_log = <<>>
    /\ CodecOff
    /\ AuthIdle
    /\ oidc_configuration = NoConfig
    /\ MgrOff /\ OboOff /\ MsalOff
    /\ ScopeOff /\ HttpOff

AuthzNext ==
    \/ ZCall
    \/ ZObo
    \/ ZS2S
    \/ ZGenerate
    \/ ZRequest
    \/ ZStatus
    \/ ZCheck
    \/ ZFinish

SpecAuthz == AuthzInit /\ [][AuthzNext]_vars

\* ------------------------------------------------------------------------
\* The HTTP boundary: the routes' own exception handling and the registered
\* exception handlers
\* ------------------------------------------------------------------------

Routes ==
    {"item1SupportedOperators", "item1DoubleResult", "getLastResult",
     "getLakehouseFile", "createItem", "createItemJobInstance", "resolveEndpoint"}

ControlPlaneRoutes == {"createItem", "createItemJobInstance", "resolveEndpoint"}

\* Routes that do something for the caller after authentication.
RoutesWithOperation ==
    {"item1DoubleResult", "getLastResult", "getLakehouseFile", "createItem",
     "createItemJobInstance"}

WorkloadExceptionTypes ==
    {"AuthenticationException", "AuthenticationUIRequiredException",
     "UnauthorizedException", "TooManyRequestsException", "InternalErrorException"}

\* http_status_code of each exception class
StatusOf(type) ==
    CASE type = "AuthenticationException" -> 401
      [] type = "AuthenticationUIRequiredException" -> 401
      [] type = "UnauthorizedException" -> 403
      [] type = "TooManyRequestsException" -> 429
      [] type = "InvalidParameterException" -> 400
      [] OTHER -> 500

\* error_code of each exception class
ErrorCodeOf(type) ==
    CASE type = "AuthenticationException" -> "AuthError"
      [] type = "AuthenticationUIRequiredException" -> "AuthUIRequired"
      [] type = "UnauthorizedException" -> "AccessDenied"
      [] type = "TooManyRequestsException" -> "TooManyRequests"
      [] type = "InvalidParameterException" -> "InvalidParameter"
      [] OTHER -> "InternalError"

NoException ==
    [type |-> "none", message |-> <<>>, claims |-> NoneStr, scopes |-> AbsentSeq,
     status |-> 0]

Exc(type, message) ==
    [type |-> type, message |-> message, claims |-> NoneStr, scopes |-> AbsentSeq,
     status |-> StatusOf(type)]

\* AuthenticationUIRequiredException with what authentication.py 172-179 adds
UIRequiredExc(message, claims, scopes) ==
    [type |-> "AuthenticationUIRequiredException", message |-> message,
     claims |-> claims, scopes |-> scopes, status |-> 401]

\* raise HTTPException(status_code=..., detail=...)
HTTPExceptionOf(status, detail) ==
    [type |-> "HTTPException", message |-> detail, claims |-> NoneStr,
     scopes |-> AbsentSeq, status |-> status]

\* error_description of the identity provider, with and without line breaks
UIRequiredMessages ==
    { <<"User interaction required">>,
      <<"AADSTS50079: ", "\r", "\n", "Trace ID: 1">> }

AuthenticationMessages ==
    { <<"Missing or invalid Authorization header">>,
      <<"Token validation failed: ", "\n", "detail">> }

UIRequiredExceptions ==
    {UIRequiredExc(m, c, s) :
        m \in UIRequiredMessages,
        c \in {NoneStr, "claims-challenge"},
        s \in {AbsentSeq, <<"scope1">>, <<"scope1", "scope2">>}}

AuthenticationExceptions == {Exc("AuthenticationException", m) : m \in AuthenticationMessages}

\* What each stage of a route may raise. Authentication leaves with
\* UnboundLocalError for a claims error other than "Invalid audience"
\* (HandleValidationException).
AuthenticateRaises ==
    AuthenticationExceptions
        \cup {Exc("UnboundLocalError",
                  <<"cannot access local variable ", "error_message">>)}

AuthorizeRaises ==
    UIRequiredExceptions \cup AuthenticationExceptions
        \cup {Exc("UnauthorizedException", <<"User does not have required permissions">>),
              Exc("InternalErrorException", <<"Unexpected error: ", "\n", "detail">>)}

\* Exceptions of ItemBase.load, raised before the item's own operation:
\* ValueError, and the PermissionError of opening the metadata file
\* (item_metadata_store.py 136).
LoadExceptionTypes == {"ValueError", "PermissionError"}

OperateRaises ==
    UIRequiredExceptions \cup AuthenticationExceptions
        \cup {Exc("ValueError", <<"badly formed hexadecimal UUID string">>),
              Exc("PermissionError", <<"[Errno 13] Permission denied: ", "metadata.json">>),
              Exc("Exception", <<"connection reset">>)}

NoRoute == [route |-> "", exc |-> NoException, at |-> ""]

\* The response sent: an ErrorResponse body (to_response), a {"message": ...}
\* body, a {"detail": ...} body, or the content of the route.
NoResponseSent ==
    [status |-> 0, shape |-> "none", error_code |-> "", message |-> <<>>,
     www_authenticate |-> <<>>]

ResponseOf(status, shape, error_code, message) ==
    [status |-> status, shape |-> shape, error_code |-> error_code,
     message |-> message, www_authenticate |-> <<>>]

\* WorkloadExceptionBase.to_response
ToResponse(exc) ==
    ResponseOf(exc.status, "error_response", ErrorCodeOf(exc.type), exc.message)

\* str.replace('\r', ' ').replace('\n', ' ') on a text given as its pieces
ReplaceCrLf(text) ==
    [i \in DOMAIN text |-> IF text[i] \in {"\r", "\n"} THEN " " ELSE text[i]]

HeaderPart(name, value) == [name |-> name, value |-> value]

\* AuthenticationUIRequiredException.to_www_authenticate_header: the parts
\* that are joined with ", "; the scopes of the scope part are joined with " ".
ToWwwAuthenticateHeader(exc) ==
    LET error_description == ReplaceCrLf(exc.message)
    IN  <<HeaderPart("Bearer", <<>>),
          HeaderPart("authorization_uri",
                     <<"https://login.microsoftonline.com/common/oauth2/authorize">>)>>
        \o (IF exc.claims \notin {NoneStr, ""}
            THEN <<HeaderPart("error", <<"invalid_token">>),
                   HeaderPart("error_description", error_description),
                   HeaderPart("claims", <<exc.claims>>)>>
            ELSE IF exc.scopes \notin {AbsentSeq, <<>>}
                 THEN <<HeaderPart("error", <<"insufficient_scope">>),
                        HeaderPart("error_description", error_description),
                        HeaderPart("scope", exc.scopes)>>
                 ELSE <<HeaderPart("error", <<"interaction_required">>),
                        HeaderPart("error_description", error_description)>>)

\* A request arrives at a route.
HRequest ==
    /\ h_pc = "idle"
    /\ \E route \in Routes : h_in' = [NoRoute EXCEPT !.route = route]
    /\ h_pc' = "authenticate"
    /\ UNCHANGED h_out
    /\ UNCHANGED otherThanHttp

HRaiseAt(stage, exc) ==
    /\ h_in' = [h_in EXCEPT !.exc = exc, !.at = stage]
    /\ h_pc' = "raised"
    /\ UNCHANGED h_out

\* The route authenticates the call: authenticate_control_plane_call or
\* authenticate_data_plane_call returns a context or raises.
HAuthenticate ==
    /\ h_pc = "authenticate"
    /\ \/ /\ h_pc' = CASE h_in.route = "item1DoubleResult" -> "authorize"
                       [] h_in.route \in RoutesWithOperation -> "operate"
                       [] OTHER -> "respond"
          /\ UNCHANGED <<h_in, h_out>>
       \/ \E exc \in AuthenticateRaises : HRaiseAt("authenticate", exc)
    /\ UNCHANGED otherThanHttp

\* fabric_extension_controller.py 61-67: validate_permissions
HAuthorize ==
    /\ h_pc = "authorize"
    /\ \/ /\ h_pc' = "operate"
          /\ UNCHANGED <<h_in, h_out>>
       \/ \E exc \in AuthorizeRaises : HRaiseAt("authorize", exc)
    /\ UNCHANGED otherThanHttp

\* The work of the route after authentication. Item1.get_last_result
\* (item1.py 415-434) lets AuthenticationUIRequiredException through and
\* answers "" to every other exception of the token exchange; an exception
\* of item.load is raised before it and reaches the route.
HOperate ==
    /\ h_pc = "operate"
    /\ \/ /\ h_pc' = "respond"
          /\ UNCHANGED <<h_in, h_out>>
       \/ \E exc \in OperateRaises :
            IF h_in.route = "getLastResult"
               /\ exc.type \notin {"AuthenticationUIRequiredException"} \cup LoadExceptionTypes
            THEN /\ h_in' = [h_in EXCEPT !.exc = exc, !.at = "item"]
                 /\ h_pc' = "respond"
                 /\ UNCHANGED h_out
            ELSE HRaiseAt("operate", exc)
    /\ UNCHANGED otherThanHttp

\* The route returns its content.
HRespond ==
    /\ h_pc = "respond"
    /\ h_out' = ResponseOf(200, "content", "", <<>>)
    /\ h_pc' = "done"
    /\ UNCHANGED h_in
    /\ UNCHANGED otherThanHttp

\* The except clauses of the route around the stage that raised:
\* get_item1_supported_operators (lines 28-43) and get_last_result (92-105)
\* answer 500 themselves, endpoint_resolution_resolve (111-116) raises
\* HTTPException, the jobs routes log and re-raise, the others have none.
HRouteExcept ==
    /\ h_pc = "raised"
    /\ CASE h_in.route = "item1SupportedOperators" ->
                /\ h_out' = ResponseOf(500, "message", "",
                                       <<"Error getting supported operators:: ">>
                                           \o h_in.exc.message)
                /\ h_pc' = "done"
                /\ UNCHANGED h_in
         [] h_in.route = "getLastResult" /\ h_in.at = "operate" ->
                /\ h_out' = IF h_in.exc.type = "ValueError"
                            THEN ResponseOf(200, "content", "", <<>>)
                            ELSE ResponseOf(500, "message", "",
                                            <<"Error getting last result: ">>
                                                \o h_in.exc.message)
                /\ h_pc' = "done"
                /\ UNCHANGED h_in
         [] h_in.route = "resolveEndpoint" ->
                /\ h_in' = [h_in EXCEPT !.exc =
                              IF h_in.exc.type = "AuthenticationException"
                              THEN HTTPExceptionOf(401, h_in.exc.message)
                              ELSE HTTPExceptionOf(500, <<"Error resolving endpoint: ">>
                                                            \o h_in.exc.message)]
                /\ h_pc' = "dispatch"
                /\ UNCHANGED h_out
         [] OTHER ->
                /\ h_pc' = "dispatch"
                /\ UNCHANGED <<h_in, h_out>>
    /\ UNCHANGED otherThanHttp

\* register_exception_handlers: the handler of the class of the exception.
\* HTTPException is answered by the framework with its status and detail.
HDispatch ==
    /\ h_pc = "dispatch"
    /\ h_out' =
        CASE h_in.exc.type = "AuthenticationUIRequiredException" ->
                [ToResponse(h_in.exc) EXCEPT
                    !.www_authenticate = ToWwwAuthenticateHeader(h_in.exc)]
          [] h_in.exc.type \in WorkloadExceptionTypes -> ToResponse(h_in.exc)
          [] h_in.exc.type = "ValueError" ->
                ToResponse(Exc("InvalidParameterException", h_in.exc.message))
          [] h_in.exc.type = "HTTPException" ->
                ResponseOf(h_in.exc.status, "detail", "", h_in.exc.message)
          [] OTHER -> ToResponse(Exc("InternalErrorException", <<"Unexpected error">>))
    /\ h_pc' = "done"
    /\ UNCHANGED h_in
    /\ UNCHANGED otherThanHttp

\* The response is sent.
HFinish ==
    /\ h_pc = "done"
    /\ h_pc' = "idle"
    /\ h_in' = NoRoute
    /\ h_out' = NoResponseSent
    /\ UNCHANGED otherThanHttp

HttpInit ==
    /\ h_pc = "idle"
    /\ h_in = NoRoute
    /\ h_out = NoResponseSent
    /\ CodecOff
    /\ AuthIdle
    /\ oidc_configuration = NoConfig
    /\ MgrOff /\ OboOff /\ MsalOff
    /\ ScopeOff /\ AuthzOff

HttpNext ==
    \/ HRequest
    \/ HAuthenticate
    \/ HAuthorize
    \/ HOperate
    \/ HRespond
    \/ HRouteExcept
    \/ HDispatch
    \/ HFinish

SpecHttp == HttpInit /\ [][HttpNext]_vars

\* ------------------------------------------------------------------------
\* Two data-plane calls that differ in tenant_id
\*
\* The caller presents the same Authorization header and the same allowed
\* scopes a second time, with another tenant_id. The token is the same text,
\* so what the first call read of it stays as it was read.
\* ------------------------------------------------------------------------

otherThanAuthAndTwin ==
    <<codecVars, mgrVars, oboVars, msalVars, scopeVars, authzVars, httpVars>>

\* authenticate_data_plane_call is called again after the first call ended.
PresentAgain ==
    /\ pc = "done"
    /\ req.kind = "data"
    /\ ~d_first.seen
    /\ d_first' = [tenant_id |-> req.tenant_id, cfg |-> loc.cfg, result |-> result,
                   seen |-> TRUE]
    /\ \E tn \in TenantHeaders \ {req.tenant_id} :
        req' = [req EXCEPT !.tenant_id = tn]
    /\ pc' = "dp_check_header"
    /\ loc' = IdleLoc
    /\ result' = NoResult
    /\ trace' = <<>>
    /\ UNCHANGED <<sat, tokens, oidc_configuration>>
    /\ UNCHANGED otherThanAuthAndTwin

\* Both calls are over; the cached configuration outlives them.
ForgetCalls ==
    /\ pc = "done"
    /\ d_first.seen
    /\ pc' = "idle"
    /\ req' = NoRequest
    /\ sat' = ParseError("")
    /\ tokens' = [t \in AuthTokenTexts |-> UnreadToken]
    /\ loc' = IdleLoc
    /\ result' = NoResult
    /\ trace' = <<>>
    /\ d_first' = NoFirst
    /\ UNCHANGED oidc_configuration
    /\ UNCHANGED otherThanAuthAndTwin

DataPlaneNext ==
    \/ CallDataPlane
    \/ DpCheckHeader
    \/ VDecode
    \/ VTid
    \/ VVer
    \/ VGetConfigCached
    \/ VGetConfigRefreshed
    \/ VGetConfigFetchFailed
    \/ VFindKey
    \/ VIssuer
    \/ VAudience
    \/ VVerify
    \/ VAppIdClaim
    \/ VShape
    \/ BearerTid
    \/ BearerScope
    \/ PresentAgain
    \/ ForgetCalls

\* Pairs of data-plane calls with the same header, scopes and token.
SpecDataPlane == Init /\ [][DataPlaneNext]_vars

\* ------------------------------------------------------------------------
\* Vocabulary of the properties
\* ------------------------------------------------------------------------

Happened(who, step, outcome) ==
    \E i \in DOMAIN trace : trace[i] = Event(who, step, outcome)

Started(who) == \E i \in DOMAIN trace : trace[i][1] = who

Fetched == \E i \in DOMAIN trace : trace[i][2] = "fetch"

ValidationRoles == {"app", "subject", "bearer"}

\* The steps of one accepted validation, in the order of the code.
ValidationSteps ==
    <<"decode", "tid", "ver", "getconfig", "findkey", "issuer", "audience",
      "verify", "appidclaim", "shape", "accepted">>

\* The steps validation `role` has executed, without the fetches inside
\* get_configuration_async.
StepsOf(role) ==
    LET mine == SelectSeq(trace, LAMBDA e : e[1] = role /\ e[2] # "fetch")
    IN  [i \in DOMAIN mine |-> mine[i][2]]

Done == pc = "done"

Returned == Done /\ result.status = "returned"

Raised == Done /\ result.status = "raised"

ControlCall == req.kind = "control"

\* The validation of loc.tok has just returned its claims.
JustAccepted == pc \in {"auth_app_version", "auth_subject_version", "bearer_tid"}

\* The app-id claim of a token, by the token's own version.
AppIdClaimOf(c) == IF c.ver = "1.0" THEN c.appid ELSE c.azp

AppOnlyShape(c) ==
    /\ c.idtyp = "app"
    /\ c.oid \notin {Absent, U}
    /\ c.scp = AbsentSeq

DelegatedShape(c) ==
    /\ c.idtyp = Absent
    /\ c.scp \notin {AbsentSeq, US}

\* ------------------------------------------------------------------------
\* C1
\* ------------------------------------------------------------------------

\* The tid claims of the tokens that passed validation in the current call.
ValidatedTids ==
    {tokens[x.v].tid : x \in {y \in {loc.app_token_claims, loc.subject_claims} : y.some}}

\* C1: in every returned context tenant_object_id is absent or is the tid
\* claim of a token that passed validation in the same call.
C1_TenantObjectIdFromValidatedClaim ==
    Returned =>
        \/ result.ctx.tenant_object_id = NoneStr
        \/ result.ctx.tenant_object_id \in ValidatedTids

\* ------------------------------------------------------------------------
\* C2
\* ------------------------------------------------------------------------

\* C2: _validate_aad_token_common returns claims only if every step of the
\* pipeline passed in that call (tid present, ver 1.0 or 2.0, a signing key of
\* the configuration with the header's kid, signature / iat / nbf / exp / aud /
\* iss verified against the resolved audience and issuer, shape as expected),
\* each step executed once and in order; and a failing step is the last step
\* of the call, which ends raised.
C2_AcceptedOnlyIfEveryStepPassed ==
    /\ JustAccepted =>
        LET c == tokens[loc.tok]
        IN  /\ c.wf = "ok"
            /\ c.tid \in Tenants
            /\ c.ver \in {"1.0", "2.0"}
            /\ \E i \in DOMAIN loc.cfg.signing_keys :
                    loc.cfg.signing_keys[i].kid = c.kid
            /\ c.sig = "valid" /\ c.iat = "ok" /\ c.nbf = "ok" /\ c.exp = "ok"
            /\ c.aud = (IF c.ver = "1.0" THEN audience ELSE client_id)
            /\ c.iss = (IF c.ver = "1.0"
                        THEN FormatIssuer(loc.cfg.issuer_configuration, c.tid)
                        ELSE IssuerV2Of(c.tid))
            /\ c.aud = loc.aud /\ c.iss = loc.issuer
            /\ AppIdClaimOf(c) \notin {Absent, U}
            /\ IF loc.role = "app" THEN AppOnlyShape(c) ELSE DelegatedShape(c)
            /\ StepsOf(loc.role) = ValidationSteps
    /\ \A i \in DOMAIN trace :
        trace[i][3] = "fail" => i = Len(trace) /\ Raised

C2_Witness ==
    /\ pc = "auth_subject_version"
    /\ tokens[loc.tok].ver = "1.0"
    /\ tokens[loc.tok].kid = "k1"

\* ------------------------------------------------------------------------
\* C3
\* ------------------------------------------------------------------------

\* The subject token of the call's header, once the header is parsed.
HeaderSubject == sat.subject_token

\* The call carries a subject token, apart from the app token, whose tid
\* claim the call has read.
SubjectTidRead ==
    /\ sat.ok /\ HeaderSubject.some
    /\ HeaderSubject.v # sat.app_token
    /\ tokens[HeaderSubject.v].tid \in Tenants

\* C3: a control-plane call with tenant_id = T1 and a subject token whose tid
\* is T2 # T1 fails with an authentication error and returns no context.
C3_TenantIsolation ==
    (Done /\ ControlCall /\ SubjectTidRead /\ req.tenant_id \in Tenants
        /\ tokens[HeaderSubject.v].tid # req.tenant_id)
    => (Raised /\ result.error = "AuthenticationException")

\* ------------------------------------------------------------------------
\* C4
\* ------------------------------------------------------------------------

\* C4: claims accepted as app-only have idtyp = "app", carry oid and carry
\* no scp; claims accepted as delegated carry scp and no idtyp.
C4_ShapeEnforcement ==
    /\ loc.app_token_claims.some => AppOnlyShape(tokens[loc.app_token_claims.v])
    /\ loc.subject_claims.some => DelegatedShape(tokens[loc.subject_claims.v])

C4_Witness ==
    /\ loc.app_token_claims.some
    /\ loc.subject_claims.some
    /\ Returned

\* ------------------------------------------------------------------------
\* C5
\* ------------------------------------------------------------------------

\* C5: a control-plane call returns a context only if the app token was
\* validated as app-only, its app-id claim (appid for v1, azp for v2) is one
\* of the two first-party application ids and its tid is the publisher's
\* tenant, with or without a subject token.
C5_AppTokenChecked ==
    (Returned /\ ControlCall) =>
        /\ sat.ok
        /\ loc.app_token_claims = Some(sat.app_token)
        /\ StepsOf("app") = ValidationSteps
        /\ LET c == tokens[sat.app_token]
           IN  /\ AppOnlyShape(c)
               /\ AppIdClaimOf(c) \in {FABRIC_BACKEND_APP_ID,
                                      FABRIC_CLIENT_FOR_WORKLOADS_APP_ID}
               /\ c.tid = publisher_tenant_id

C5_Witness ==
    /\ Returned /\ ControlCall
    /\ ~sat.subject_token.some
    /\ tokens[sat.app_token].ver = "2.0"

\* ------------------------------------------------------------------------
\* C6
\* ------------------------------------------------------------------------

AppChecksPassed ==
    /\ Happened("app", "accepted", "pass")
    /\ Happened("call", "app_appid", "pass")
    /\ Happened("call", "app_tid", "pass")

\* C6: with no subject token in the parsed header the call fails when
\* require_subject_token, and otherwise returns a context without subject
\* information; the decision is taken only after the app token, its app-id
\* and its tenant were validated. A returned context has subject context
\* only if a subject token was present and passed validation.
C6_MissingSubjectToken ==
    /\ (Done /\ ControlCall /\ sat.ok /\ ~HeaderSubject.some) =>
        /\ req.require_subject_token => Raised
        /\ (~req.require_subject_token /\ AppChecksPassed) => Returned
        /\ Returned =>
            /\ result.ctx.original_subject_token = None
            /\ ~HasSubjectContext(result.ctx)
            /\ result.ctx.claims = None
    /\ (ControlCall /\ Started("call") /\ \E i \in DOMAIN trace :
            trace[i][1] = "call" /\ trace[i][2] = "subject_present")
        => AppChecksPassed
    /\ (Returned /\ ControlCall /\ HasSubjectContext(result.ctx)) =>
        /\ HeaderSubject.some
        /\ loc.subject_claims = HeaderSubject
        /\ Happened("subject", "accepted", "pass")

C6_Witness ==
    /\ Returned /\ ControlCall
    /\ ~HeaderSubject.some
    /\ ~req.require_subject_token
    /\ req.require_tenant_id_header

\* ------------------------------------------------------------------------
\* C7
\* ------------------------------------------------------------------------

\* C7: with a subject token present a control-plane call returns a context
\* only if the subject token validated as delegated, its app-id claim equals
\* the app token's, and its scopes meet the allowed scopes; the context then
\* carries the header's subject token, tenant_id, and the subject's claims.
C7_SubjectTokenChecked ==
    (Returned /\ ControlCall /\ sat.ok /\ HeaderSubject.some) =>
        LET s == tokens[HeaderSubject.v]
            a == tokens[sat.app_token]
        IN  /\ StepsOf("subject") = ValidationSteps
            /\ DelegatedShape(s)
            /\ AppIdClaimOf(s) = AppIdClaimOf(a)
            /\ \E i \in DOMAIN subject_and_app_auth_allowed_scopes :
                    \/ subject_and_app_auth_allowed_scopes[i]
                            \in {s.scp[j] : j \in DOMAIN s.scp} \ {" "}
                    \/ /\ s.roles # AbsentSeq
                       /\ subject_and_app_auth_allowed_scopes[i]
                            \in {s.roles[j] : j \in DOMAIN s.roles}
            /\ result.ctx.original_subject_token = Parse(req.auth_header).subject_token
            /\ result.ctx.tenant_object_id = req.tenant_id
            /\ result.ctx.claims = HeaderSubject

C7_Witness ==
    /\ Returned /\ ControlCall
    /\ HeaderSubject = Some(TokB)
    /\ result.ctx.tenant_object_id = "t1"
    /\ HasSubjectContext(result.ctx)

\* ------------------------------------------------------------------------
\* C8
\* ------------------------------------------------------------------------

ParsedOrValidated ==
    \/ \E i \in DOMAIN trace : trace[i][2] = "parse"
    \/ \E r \in ValidationRoles : Started(r)
    \/ Fetched
    \/ sat.ok

\* C8: a control-plane call without an auth header fails, and one with
\* require_tenant_id_header and no tenant_id fails, before the header is
\* parsed and before any token validation or configuration fetch starts.
C8_EarlyRejection ==
    (ControlCall /\ pc \notin {"cp_check_header", "cp_check_tenant"}) =>
        /\ ~Truthy(req.auth_header) => (Raised /\ ~ParsedOrValidated)
        /\ (req.require_tenant_id_header /\ Falsy(req.tenant_id))
                => (Raised /\ ~ParsedOrValidated)

C8_Witness ==
    /\ Raised /\ ControlCall
    /\ Truthy(req.auth_header)
    /\ Parse(req.auth_header).ok
    /\ req.require_tenant_id_header /\ req.tenant_id = NoneStr

\* ------------------------------------------------------------------------
\* C9
\* ------------------------------------------------------------------------

\* C9: parse(generate(subject, app)) is (subject, app) for JWT-shaped token
\* values, the subject possibly None.
C9_RoundTrip ==
    (c_pc = "round_trip" /\ IsJwtGroup(c_in[2])
        /\ (c_in[1].some => IsJwtGroup(c_in[1].v)))
    => /\ c_out.ok
       /\ c_out.subject_token = c_in[1]
       /\ c_out.app_token = c_in[2]

C9_Witness ==
    /\ c_pc = "round_trip"
    /\ c_in[1] = None
    /\ IsJwtGroup(c_in[2])
    /\ c_out.ok

\* ------------------------------------------------------------------------
\* C10
\* ------------------------------------------------------------------------

\* The class [A-Za-z0-9_\-\.] of the documented grammar.
IsGrammarTokenChar(c) == c \in AsciiLetters \cup AsciiDigits \cup {"_", "-", "."}

IsGrammarJwt(s) ==
    /\ Len(s) >= Len(JwtPrefix) + 1
    /\ SubSeq(s, 1, Len(JwtPrefix)) = JwtPrefix
    /\ \A i \in (Len(JwtPrefix) + 1)..Len(s) : IsGrammarTokenChar(s[i])

\* h is a header of the two-token grammar or of the empty-subject grammar.
InHeaderGrammar(h) ==
    \/ \E i \in 1..Len(h) : \E j \in i..Len(h) :
        /\ IsGrammarJwt(SubSeq(h, Len(SchemePrefix) + 1, i))
        /\ IsGrammarJwt(SubSeq(h, j, Len(h) - 1))
        /\ h = SchemePrefix \o SubSeq(h, Len(SchemePrefix) + 1, i) \o AppTokenInfix
                \o SubSeq(h, j, Len(h) - 1) \o ClosingQuote
    \/ \E j \in 1..Len(h) :
        /\ IsGrammarJwt(SubSeq(h, j, Len(h) - 1))
        /\ h = SchemePrefix \o AppTokenInfix \o SubSeq(h, j, Len(h) - 1) \o ClosingQuote

\* C10: parse fails for every header value that is empty or outside the two
\* header grammars.
C10_MalformedRejected ==
    (c_pc \in {"parsed", "round_trip"}
        /\ (~Truthy(c_header) \/ ~InHeaderGrammar(c_header.v)))
    => ~c_out.ok

\* ------------------------------------------------------------------------
\* C16
\* ------------------------------------------------------------------------

\* The exchange got a result from the provider.
OboAnswered ==
    /\ o_pc = "done"
    /\ o_in.original_subject_token.some /\ o_in.original_subject_token.v # <<>>
    /\ o_in.client_secret # ""
    /\ o_in.tenant_object_id \notin {NoneStr, ""}
    /\ ~o_in.answer.raises

\* C16: a result with an error is raised as AuthenticationUIRequiredException
\* exactly when its code is interaction_required, consent_required or
\* invalid_grant or its suberror is conditional_access, as the generic
\* AuthenticationException otherwise, and no access token is returned.
C16_OboFailureClassification ==
    (OboAnswered /\ o_in.answer.error # Absent) =>
        /\ o_out.status = "raised"
        /\ o_out.access_token = Absent
        /\ o_out.error \in {"AuthenticationUIRequiredException", "AuthenticationException"}
        /\ o_out.error = "AuthenticationUIRequiredException"
            <=> \/ o_in.answer.error = "interaction_required"
                \/ o_in.answer.error = "consent_required"
                \/ o_in.answer.error = "invalid_grant"
                \/ o_in.answer.suberror = "conditional_access"

C16_Witness ==
    /\ OboAnswered
    /\ o_in.answer.error = "invalid_client"
    /\ o_in.answer.suberror = "conditional_access"
    /\ o_in.answer.access_token = "obo-access-token"
    /\ o_out.error = "AuthenticationUIRequiredException"

\* ------------------------------------------------------------------------
\* C17
\* ------------------------------------------------------------------------

ConsentRequiredRaised ==
    OboAnswered /\ o_out.error = "AuthenticationUIRequiredException"

ClaimsChallengeAttached == o_out.claims_for_conditional_access # NoneStr

ScopesAttached == o_out.additional_scopes_to_consent # AbsentSeq

\* C17 as stated: the claims challenge is attached exactly when the response
\* has a non-empty claims value, the requested scopes exactly when the error
\* code is consent_required.
C17_AsStated ==
    ConsentRequiredRaised =>
        /\ ClaimsChallengeAttached <=> o_in.answer.claims \notin {Absent, ""}
        /\ ScopesAttached <=> o_in.answer.error = "consent_required"

\* C17, amended: the claims challenge is attached exactly when the response
\* has a non-empty claims value, and it is that value; the requested scopes
\* are attached exactly when the error code is consent_required or the error
\* description contains consent_required in any letter case.
C17_ConsentChallenge ==
    ConsentRequiredRaised =>
        /\ ClaimsChallengeAttached <=> o_in.answer.claims \notin {Absent, ""}
        /\ ClaimsChallengeAttached => o_out.claims_for_conditional_access = o_in.answer.claims
        /\ ScopesAttached
            <=> \/ o_in.answer.error = "consent_required"
                \/ \E i \in DOMAIN o_in.answer.error_description :
                        o_in.answer.error_description[i]
                            \in {"consent_required", "Consent_Required"}
        /\ ScopesAttached => o_out.additional_scopes_to_consent = o_in.scopes

C17_Witness ==
    /\ ConsentRequiredRaised
    /\ o_in.answer.error = "interaction_required"
    /\ ScopesAttached
    /\ ~ClaimsChallengeAttached
    /\ o_in.answer.claims = ""

\* ------------------------------------------------------------------------
\* C18
\* ------------------------------------------------------------------------

\* C18: the exchange returns a value only for a result without error that
\* has access_token, and returns that access_token; a result with neither
\* error nor access_token ends in AuthenticationException.
C18_AccessTokenOrFailure ==
    /\ (o_pc = "done" /\ o_out.status = "returned") =>
            /\ OboAnswered
            /\ o_in.answer.error = Absent
            /\ o_in.answer.access_token # Absent
            /\ o_out.access_token = o_in.answer.access_token
    /\ (OboAnswered /\ o_in.answer.error = Absent /\ o_in.answer.access_token = Absent) =>
            /\ o_out.status = "raised"
            /\ o_out.error = "AuthenticationException"
            /\ o_out.access_token = Absent

C18_Witness ==
    /\ OboAnswered
    /\ o_in.answer.error = Absent
    /\ o_in.answer.access_token = Absent
    /\ o_in.answer.claims = "claims-challenge"
    /\ o_out.status = "raised"

\* ------------------------------------------------------------------------
\* C19
\* ------------------------------------------------------------------------

\* The validation of loc.tok ended in a check of the token's claims or of its
\* signature, the configuration and the key being at hand.
ValidationRaisedOnToken ==
    /\ Raised
    /\ InValidation
    /\ \E step \in {"tid", "ver", "verify", "appidclaim", "shape"} :
            Happened(loc.role, step, "fail")

\* A field of a token the call has not read stands for each of its values.
MayBe(t, f, x) == tokens[t][f] \in {x, UnreadOf(f)}

TokenExpired ==
    /\ result.error = "AuthenticationException"
    /\ result.message = "Token has expired"

\* C19 as stated: the validation of a token with a valid signature and an
\* exp in the past ends in the token-expired error whatever its other claims.
C19_AsStated ==
    (/\ ValidationRaisedOnToken
     /\ tokens[loc.tok].wf = "ok"
     /\ MayBe(loc.tok, "sig", "valid")
     /\ MayBe(loc.tok, "exp", "expired"))
        => TokenExpired

\* The claims jwt.decode and the steps after it look at once exp has passed.
ClaimsAfterExp == {"aud", "iss", "appid", "azp", "idtyp", "oid", "scp", "roles"}

\* C19, amended: a token whose tid and ver passed, whose signing key was
\* found, whose signature is valid and whose iat and nbf are in order, and
\* whose exp is in the past, is rejected with the token-expired error
\* whatever its aud, iss, app id, idtyp, oid, scp and roles claims are (they
\* are not looked at), and it is never accepted.
C19_Expiry ==
    \A t \in AuthTokenTexts :
        tokens[t].exp = "expired" =>
            /\ tokens[t].tid \in Tenants
            /\ tokens[t].ver \in {"1.0", "2.0"}
            /\ tokens[t].sig = "valid" /\ tokens[t].iat = "ok" /\ tokens[t].nbf = "ok"
            /\ loc.tok = t
            /\ Raised
            /\ Happened(loc.role, "verify", "fail")
            /\ TokenExpired
            /\ \A f \in ClaimsAfterExp : tokens[t][f] = UnreadOf(f)
            /\ ~Happened(loc.role, "accepted", "pass")
            /\ loc.payload = None

C19_Witness ==
    /\ Raised
    /\ loc.role = "subject"
    /\ tokens[loc.tok].exp = "expired"
    /\ tokens[loc.tok].ver = "2.0"
    /\ Happened("app", "accepted", "pass")

\* ------------------------------------------------------------------------
\* C20
\* ------------------------------------------------------------------------

\* Validation `role` asked for the OpenID Connect configuration.
AskedConfiguration(role) ==
    \E i \in DOMAIN trace :
        trace[i][1] = role /\ trace[i][2] \in {"getconfig", "fetch"}

\* C20: a token whose ver claim is missing or is neither "1.0" nor "2.0" is
\* rejected with the authentication error of the missing claim or of the
\* unsupported version, before its validation asks for the OpenID Connect
\* configuration, so that no fetch is made for it.
C20_VersionBeforeConfiguration ==
    /\ \A t \in AuthTokenTexts :
        tokens[t].ver \notin {"1.0", "2.0", U} =>
            /\ loc.tok = t
            /\ Raised
            /\ Happened(loc.role, "ver", "fail")
            /\ result.error = "AuthenticationException"
            /\ result.message =
                    (IF tokens[t].ver = Absent
                     THEN "Token validation failed: Missing claim ver"
                     ELSE "Token validation failed: Unsupported token version")
            /\ ~AskedConfiguration(loc.role)
            /\ loc.cfg = NoConfig
    /\ \A role \in ValidationRoles :
        AskedConfiguration(role) =>
            /\ Happened(role, "ver", "pass")
            /\ role = loc.role => tokens[loc.tok].ver \in {"1.0", "2.0"}

C20_Witness ==
    /\ Raised
    /\ loc.role = "subject"
    /\ tokens[loc.tok].ver = "3.0"
    /\ Happened("app", "fetch", "ok")
    /\ ~AskedConfiguration("subject")

\* ------------------------------------------------------------------------
\* C11
\* ------------------------------------------------------------------------

\* The fetches of the current burst of calls, in the order they started.
BurstFetches == SelectSeq(m_fetches, LAMBDA f : f.burst = m_bursts)

\* Task t called and found no configuration, or one as old as the cache
\* lifetime or older.
StaleOnEntry(t) ==
    /\ m_task[t].pc # "idle"
    /\ \/ m_task[t].seen.configuration = NoConfig
       \/ m_task[t].current_time - m_task[t].seen.last_updated >= cache_duration_seconds

MgrDone(t) == m_task[t].pc = "done"

\* C11: when the first fetch of a burst of calls succeeds it is the only
\* fetch of the burst, a metadata GET followed by a JWKS GET, and every call
\* that found the cache empty or expired returns the configuration it
\* fetched; no two fetches are ever under way together.
C11_SingleFlightRefresh ==
    /\ Cardinality({i \in DOMAIN m_fetches : m_fetches[i].status = "pending"}) <= 1
    /\ (BurstFetches # <<>> /\ BurstFetches[1].status = "ok") =>
            /\ Len(BurstFetches) = 1
            /\ BurstFetches[1].gets = <<"metadata", "jwks">>
            /\ \A t \in Tasks :
                (MgrDone(t) /\ StaleOnEntry(t)) =>
                    /\ m_task[t].outcome \in {"refreshed", "rechecked"}
                    /\ m_task[t].returned =
                            Config(BurstFetches[1].issuer, BurstFetches[1].keys)

C11_Witness ==
    /\ m_bursts = 1
    /\ \A t \in Tasks : MgrDone(t) /\ StaleOnEntry(t) /\ m_task[t].seen.configuration.present
    /\ Len(BurstFetches) = 1
    /\ Cardinality({t \in Tasks : m_task[t].outcome = "rechecked"}) = 2
    /\ \E t \in Tasks : m_task[t].returned # m_task[t].seen.configuration

\* ------------------------------------------------------------------------
\* C12
\* ------------------------------------------------------------------------

\* Task t is between the sending of its first GET and its return.
Fetching(t) ==
    m_task[t].pc \in {"get_metadata", "get_jwks", "store_configuration",
                       "store_last_updated", "handler"}

\* C12: a fetch is made only by a call that holds the lock and found, on
\* entry and again under the lock, no configuration or one at least
\* cache_duration_seconds old; a call that found a younger configuration
\* returns it with no GET and without the lock; every fetch belongs to such
\* a call of a task.
C12_FetchOnlyOnDemand ==
    /\ \A t \in Tasks :
        Fetching(t) =>
            /\ m_lock = t /\ m_task[t].locked
            /\ StaleOnEntry(t)
            /\ \/ m_task[t].before.configuration = NoConfig
               \/ m_task[t].current_time - m_task[t].before.last_updated
                        >= cache_duration_seconds
    /\ \A t \in Tasks :
        (m_task[t].pc \notin {"idle", "fast_check"} /\ ~StaleOnEntry(t)) =>
            /\ MgrDone(t)
            /\ m_task[t].outcome = "cached"
            /\ m_task[t].returned = m_task[t].seen.configuration
            /\ ~m_task[t].locked /\ m_lock # t
            /\ m_task[t].gets = 0
    /\ \A i \in DOMAIN BurstFetches :
        LET f == BurstFetches[i]
        IN  /\ f.by \in Tasks
            /\ StaleOnEntry(f.by) /\ m_task[f.by].locked
            /\ m_task[f.by].gets = Len(f.gets)
            /\ f.status = "pending" <=> m_task[f.by].pc \in {"get_metadata", "get_jwks"}
    /\ Len(BurstFetches) = Cardinality({t \in Tasks : m_task[t].gets > 0})

C12_Witness ==
    \E t, u \in Tasks :
        /\ m_bursts = 1
        /\ m_task[t].outcome = "refreshed"
        /\ m_task[u].outcome = "cached" /\ ~m_task[u].locked
        /\ m_task[u].current_time > m_task[t].current_time

\* ------------------------------------------------------------------------
\* C13
\* ------------------------------------------------------------------------

\* C13: a call whose fetch failed returns the configuration it found under
\* the lock, if there was one, and leaves configuration and last_updated as
\* they were; if there was none it raises the error of the fetch and the
\* cache stays empty.
C13_FetchFailure ==
    \A i \in DOMAIN BurstFetches :
        LET f == BurstFetches[i]
            c == m_task[f.by]
        IN  (f.status = "failed" /\ c.pc = "done") =>
                /\ c.left = c.before
                /\ IF c.before.configuration.present
                   THEN /\ c.outcome = "stale"
                        /\ c.returned = c.before.configuration
                        /\ c.error = ""
                   ELSE /\ c.outcome = "error"
                        /\ c.error = f.error /\ c.error # ""
                        /\ c.returned = NoConfig
                        /\ c.left.configuration = NoConfig

C13_Witness ==
    \E t \in Tasks :
        /\ m_task[t].outcome = "stale"
        /\ m_task[t].gets = 2
        /\ m_task[t].current_time - m_task[t].left.last_updated >= cache_duration_seconds
        /\ oidc_configuration = m_task[t].returned

\* ------------------------------------------------------------------------
\* C14
\* ------------------------------------------------------------------------

\* The caches that are whole: the empty one of the constructor, and the
\* issuer and keys of one fetch that succeeded with the time of that fetch.
WholeCaches ==
    {NoCache} \cup
    { [configuration |-> Config(m_fetches[i].issuer, m_fetches[i].keys),
       last_updated |-> m_fetches[i].at] :
        i \in {j \in DOMAIN m_fetches : m_fetches[j].status = "ok"} }

\* C14: whenever another request can run (no task is running), the cache is
\* the whole old or the whole new one: issuer, keys and last_updated are
\* those of one fetch, the keys all of that fetch's keys; and what a call
\* saw on entry, saw under the lock and left is whole as well.
C14_AtomicReplacement ==
    /\ m_running = NoTask => Cache \in WholeCaches
    /\ \A t \in Tasks :
        /\ m_task[t].seen \in WholeCaches
        /\ m_task[t].before \in WholeCaches
        /\ MgrDone(t) => m_task[t].left \in WholeCaches

C14_Witness ==
    \E t, u \in Tasks :
        /\ m_bursts = 1
        /\ m_running = NoTask
        /\ m_task[t].outcome = "refreshed"
        /\ m_task[u].pc = "waiting"
        /\ m_task[u].seen.configuration.present
        /\ m_task[u].seen.configuration # oidc_configuration
        /\ m_last_updated = m_task[t].current_time

\* ------------------------------------------------------------------------
\* C15
\* ------------------------------------------------------------------------

\* The constructions made for an authority.
ConstructionsFor(a) == {i \in DOMAIN a_built : a_built[i][1] = a}

MsalDone(w) == a_worker[w].pc = "done"

\* C15: concurrent calls of _get_msal_app for one tenant, from tasks or from
\* threads, construct one ConfidentialClientApplication and all receive it;
\* calls for different tenants receive different instances, one construction
\* per authority.
C15_ClientCacheUniqueness ==
    /\ \A a \in Authorities : Cardinality(ConstructionsFor(a)) <= 1
    /\ \A w1, w2 \in Workers :
        (MsalDone(w1) /\ MsalDone(w2)) =>
            (a_worker[w1].authority = a_worker[w2].authority
                <=> a_worker[w1].returned = a_worker[w2].returned)

\* ------------------------------------------------------------------------
\* C21
\* ------------------------------------------------------------------------

\* How often validation `role` executed `step` in the current call.
CountOf(role, step) ==
    Len(SelectSeq(trace, LAMBDA e : e[1] = role /\ e[2] = step))

KidAmong(keys, kid) == \E i \in DOMAIN keys : keys[i].kid = kid

\* C21: a validation whose token's kid is not among the signing keys of the
\* configuration it obtained ends in the signing-key-not-found error, as the
\* last step of the call; a validation asks for the configuration once at
\* most, fetches once at most and looks the key up once at most.
C21_KeyNotFoundNoRetry ==
    \A role \in ValidationRoles :
        /\ CountOf(role, "getconfig") <= 1
        /\ CountOf(role, "fetch") <= 1
        /\ CountOf(role, "findkey") <= 1
        /\ Happened(role, "findkey", "pass") =>
                (role = loc.role => KidAmong(loc.cfg.signing_keys, tokens[loc.tok].kid))
        /\ Happened(role, "findkey", "fail") =>
                /\ Raised
                /\ loc.role = role
                /\ ~KidAmong(loc.cfg.signing_keys, tokens[loc.tok].kid)
                /\ trace[Len(trace)] = Event(role, "findkey", "fail")
                /\ trace[Len(trace) - 1] = Event(role, "getconfig", "pass")
                /\ CountOf(role, "getconfig") = 1
                /\ result.error = "AuthenticationException"
                /\ result.message = "Token validation failed: Token signing key not found"

C21_Witness ==
    /\ Raised
    /\ Happened(loc.role, "findkey", "fail")
    /\ Happened(loc.role, "fetch", "ok")
    /\ tokens[loc.tok].kid = "k2"
    /\ loc.cfg.signing_keys # <<>>

\* ------------------------------------------------------------------------
\* C22
\* ------------------------------------------------------------------------

\* The validation of loc.tok ended at a failing step.
ValidationFailed ==
    /\ Raised
    /\ InValidation
    /\ \E i \in DOMAIN ValidationSteps : Happened(loc.role, ValidationSteps[i], "fail")

\* jwt.decode found the signature valid and the token not expired, and
\* failed on iat, nbf, aud or iss.
VerifyFailedOnClaim ==
    /\ ValidationFailed
    /\ Happened(loc.role, "verify", "fail")
    /\ tokens[loc.tok].sig = "valid"
    /\ tokens[loc.tok].exp # "expired"

\* C22: every failure of _validate_aad_token_common leaves it as
\* AuthenticationException, and a failure of the verification on iat, nbf,
\* aud or iss as the one of the invalid claims.
C22_ClaimFailuresAreAuthenticationErrors ==
    /\ ValidationFailed => result.error = "AuthenticationException"
    /\ VerifyFailedOnClaim =>
            result.message \in {"Invalid token claims: Invalid audience",
                                "Invalid token claims: Invalid issuer",
                                "Invalid token claims: The token is not yet valid (nbf)",
                                "Invalid token claims: Issued At claim (iat) must be an integer."}

\* ------------------------------------------------------------------------
\* C26
\* ------------------------------------------------------------------------

\* The scopes a token carries: the maximal runs without blanks of a string scp
\* claim, the items of a list roles claim, the whole of a string roles claim.
IsWordOfScp(scp, w) ==
    /\ scp.kind = "str"
    /\ \E i \in DOMAIN scp.text : \E j \in i..Len(scp.text) :
        /\ w = SubSeq(scp.text, i, j)
        /\ \A k \in i..j : scp.text[k] \notin Blanks
        /\ i = 1 \/ scp.text[i - 1] \in Blanks
        /\ j = Len(scp.text) \/ scp.text[j + 1] \in Blanks

IsRole(roles, w) ==
    \/ roles.kind = "list" /\ \E i \in DOMAIN roles.items : roles.items[i] = w
    \/ roles.kind = "str" /\ roles.text # <<>> /\ w = roles.text

IsTokenScope(w) == IsWordOfScp(s_in.scp, w) \/ IsRole(s_in.roles, w)

ScopeChecked == s_pc = "done"

ScopePassed == s_out.status = "returned"

AllowedSet == {s_in.allowed_scopes[i] : i \in DOMAIN s_in.allowed_scopes}

\* C26: _validate_any_scope passes exactly when at least one allowed scope
\* equals, exactly and with regard to case, one of the token's scopes (the
\* words of scp and the roles), and raises AuthenticationException otherwise;
\* {A, B} against a token with {C, A} passes, a token without scopes fails
\* against every non-empty allowed list, and an empty allowed list always fails.
C26_AnyOfScopes ==
    ScopeChecked =>
        /\ ScopePassed <=> \E a \in AllowedSet : IsTokenScope(a)
        /\ ~ScopePassed =>
            /\ s_out.status = "raised"
            /\ s_out.error = "AuthenticationException"
        /\ s_in.allowed_scopes = <<>> => ~ScopePassed
        /\ s_in.token_scopes = <<>> => ~ScopePassed
        /\ ( /\ AllowedSet = {<<ITEM1_READ_ALL>>, <<ITEM1_READ_WRITE_ALL>>}
             /\ s_in.scp = StrValue(<<FABRIC_WORKLOAD_CONTROL, " ", ITEM1_READ_ALL>>)
             /\ s_in.roles = NoClaim ) => ScopePassed

\* {A, B} against {C, A} has passed, where an all-of test and a test of the
\* first scope alone would both fail.
C26_Witness ==
    /\ ScopeChecked
    /\ ScopePassed
    /\ s_in.allowed_scopes = <<<<ITEM1_READ_WRITE_ALL>>, <<ITEM1_READ_ALL>>>>
    /\ s_in.scp = StrValue(<<FABRIC_WORKLOAD_CONTROL, "\t", ITEM1_READ_ALL>>)
    /\ s_in.roles = NoClaim

\* ------------------------------------------------------------------------
\* C27
\* ------------------------------------------------------------------------

DataCall == req.kind = "data"

BearerPrefix == BearerScheme \o <<" ">>

StartsWithBearer == Truthy(req.auth_header) /\ HasPrefix(req.auth_header.v, BearerPrefix)

\* t is what follows the scheme in the header, without the blanks around it.
IsBearerTokenOfHeader(t) ==
    /\ t = <<>> \/ (~IsSpace(t[1]) /\ ~IsSpace(t[Len(t)]))
    /\ \E i \in 0..Len(req.auth_header.v), j \in 0..Len(req.auth_header.v) :
        /\ req.auth_header.v = SubSeq(req.auth_header.v, 1, i) \o t
                                  \o SubSeq(req.auth_header.v, j + 1, Len(req.auth_header.v))
        /\ i + Len(t) = j
        /\ HasPrefix(SubSeq(req.auth_header.v, 1, i), BearerScheme)
        /\ \A k \in (Len(BearerScheme) + 1)..i : IsSpace(req.auth_header.v[k])
        /\ \A k \in (j + 1)..Len(req.auth_header.v) : IsSpace(req.auth_header.v[k])

ValidatedAs(role) == \A i \in DOMAIN ValidationSteps : Happened(role, ValidationSteps[i], "pass")

TokenScopeSet(c) ==
    ({c.scp[j] : j \in DOMAIN c.scp} \ {" "}) \cup
        (IF c.roles \in {AbsentSeq, US} THEN {} ELSE {c.roles[j] : j \in DOMAIN c.roles})

\* C27: authenticate_data_plane_call returns a context only if the header
\* starts with "Bearer ", the bearer token was validated as a delegated token,
\* carries tid, and has a scope among allowed_scopes; the context carries the
\* bearer token, the validated tid and the validated claims. With any other
\* header the call fails before any token validation starts.
C27_DataPlaneContext ==
    DataCall =>
        /\ Returned =>
            /\ StartsWithBearer
            /\ result.ctx.original_subject_token.some
            /\ IsBearerTokenOfHeader(result.ctx.original_subject_token.v)
            /\ ValidatedAs("bearer")
            /\ ~Started("app") /\ ~Started("subject")
            /\ result.ctx.claims = result.ctx.original_subject_token
            /\ LET c == tokens[result.ctx.claims.v]
               IN  /\ DelegatedShape(c)
                   /\ c.tid \notin {Absent, U}
                   /\ result.ctx.tenant_object_id = c.tid
                   /\ TokenScopeSet(c) \cap {req.allowed_scopes[i] : i \in DOMAIN req.allowed_scopes} # {}
        /\ (pc # "dp_check_header" /\ ~StartsWithBearer) =>
            /\ Raised
            /\ result.error = "AuthenticationException"
            /\ trace = <<Event("call", "check_header", "fail")>>

\* A context was returned for a header with blanks around the token.
C27_Witness ==
    /\ DataCall /\ Returned
    /\ req.auth_header = Some(BearerScheme \o <<" ", " ">> \o TokA \o <<" ">>)
    /\ result.ctx.original_subject_token = Some(TokA)

\* ------------------------------------------------------------------------
\* C23 - C25, C28
\* ------------------------------------------------------------------------

CheckDone == z_pc = "done"

CheckReturned == CheckDone /\ z_out.status = "returned"

CheckRaised(error) == CheckDone /\ z_out.status = "raised" /\ z_out.error = error

Logged(what) == {i \in DOMAIN z_log : z_log[i][1] = what}

\* The endpoint's last answer of this call was a response with this status.
LastAnswered(statuses) ==
    /\ Logged("get") # {}
    /\ z_log[Len(z_log)][2] = "response"
    /\ z_log[Len(z_log)][3] \in statuses

\* C23: through the production HTTP client, validate_permissions fails with
\* TooManyRequestsException when the endpoint answers 429, with
\* UnauthorizedException when it answers 401 or 403, and with
\* InternalErrorException for any other status outside 2xx.
C23_StatusMapping ==
    CheckDone =>
        /\ LastAnswered({429}) => CheckRaised("TooManyRequestsException")
        /\ LastAnswered({401, 403}) => CheckRaised("UnauthorizedException")
        /\ LastAnswered((100..599) \ ((200..299) \cup {401, 403, 429}))
                => CheckRaised("InternalErrorException")

\* The permission names that differ by case alone.
CaseClasses == {{"Read", "READ", "read"}, {"Write", "WRITE", "write"},
                {"Execute", "EXECUTE", "execute"}}

EqualIgnoringCase(a, b) == a = b \/ \E class \in CaseClasses : a \in class /\ b \in class

\* The endpoint answered 2xx with a well-formed body.
Resolved ==
    /\ CheckDone
    /\ z_in.response.kind = "response"
    /\ IsSuccess(z_in.response.status)
    /\ z_in.response.json

EveryRequiredMatched ==
    \A i \in DOMAIN z_in.required_permissions :
        \E j \in DOMAIN z_in.response.permissions :
            EqualIgnoringCase(z_in.required_permissions[i], z_in.response.permissions[j])

\* C24 as stated: after a successful response validate_permissions returns
\* exactly when every required permission equals, ignoring case, a returned
\* one, for every pair of lists, the empty ones included.
C24_AsStated ==
    Resolved =>
        /\ CheckReturned <=> EveryRequiredMatched
        /\ ~CheckReturned => CheckRaised("UnauthorizedException")

\* C24: after a successful response validate_permissions returns exactly when
\* the returned list is not empty and every required permission equals,
\* ignoring case, a returned one; otherwise it fails with
\* UnauthorizedException, also when both lists are empty.
C24_PermissionMatching ==
    Resolved =>
        /\ CheckReturned <=> (z_in.response.permissions # <<>> /\ EveryRequiredMatched)
        /\ ~CheckReturned => CheckRaised("UnauthorizedException")

\* Two required permissions matched returned ones of another case and order.
C24_Witness ==
    /\ Resolved
    /\ CheckReturned
    /\ z_in.required_permissions = <<"Read", "WRITE">>
    /\ z_in.response.permissions = <<"Write", "read">>

\* C25: permission checks are not cached. Every validate_permissions call
\* starts by building a composite token; once it has the token it sends a GET
\* to the endpoint; and it returns exactly when the last answer to this
\* call's own GET resolves permissions that cover the required ones, whatever
\* an earlier check of the same item ended with.
C25_NeverCached ==
    CheckDone =>
        /\ z_log # <<>>
        /\ z_log[1][1] = "obo"
        /\ z_in.subject_and_app_token.some => Logged("get") # {}
        /\ Logged("get") # {} =>
            /\ z_in.subject_and_app_token.some
            /\ \A i \in Logged("get") : \A j \in Logged("generate") : j < i
        /\ CheckReturned <=>
            /\ LastAnswered(200..299)
            /\ z_in.response.json
            /\ z_in.response.permissions # <<>>
            /\ EveryRequiredMatched

\* A check of an item fails after an earlier check of the same item passed.
C25_Witness ==
    /\ CheckRaised("UnauthorizedException")
    /\ z_in.earlier[z_in.item] = "returned"
    /\ Logged("get") # {}

OboRequested == Logged("obo") # {}

OboSucceeded == \E i \in Logged("obo") : z_log[i][2] = "returned"

S2SRequested == Logged("s2s") # {}

\* build_composite_token has just returned its result.
CompositeReturned == z_log # <<>> /\ z_log[Len(z_log)][1] = "generate"

Responded == h_pc = "done"

\* An exception of this class was raised while the request was served.
RaisedWhileServing(type) == h_in.exc.type = type

\* The exception reached the registered handlers as it was raised.
Dispatched == Responded /\ h_in.at \in {"authenticate", "authorize", "operate"}
                 /\ h_out.shape \in {"error_response", "detail"}

PartsNamed(name) ==
    {i \in DOMAIN h_out.www_authenticate : h_out.www_authenticate[i].name = name}

HasPart(name, value) ==
    \E i \in PartsNamed(name) : h_out.www_authenticate[i].value = value

NoCrLf(text) == \A i \in DOMAIN text : text[i] \notin {"\r", "\n"}

ClaimsAttached(exc) == exc.claims # NoneStr

ScopesToConsentAttached(exc) == exc.scopes # AbsentSeq

\* The challenge of the response is the one the exception calls for.
ChallengeOf(exc) ==
    /\ h_out.status = 401
    /\ h_out.www_authenticate # <<>>
    /\ h_out.www_authenticate[1].name = "Bearer"
    /\ PartsNamed("authorization_uri") # {}
    /\ IF ClaimsAttached(exc)
       THEN HasPart("error", <<"invalid_token">>) /\ HasPart("claims", <<exc.claims>>)
       ELSE IF ScopesToConsentAttached(exc)
            THEN HasPart("error", <<"insufficient_scope">>) /\ HasPart("scope", exc.scopes)
            ELSE HasPart("error", <<"interaction_required">>)
    /\ PartsNamed("error_description") # {}
    /\ \A i \in PartsNamed("error_description") : NoCrLf(h_out.www_authenticate[i].value)

\* C29: a ConsentRequired error (AuthenticationUIRequiredException) reaches
\* the client as a 401 response with a WWW-Authenticate header that contains
\* authorization_uri, has error invalid_token and the claims when a claims
\* challenge is attached, else insufficient_scope and the scopes when scopes
\* are attached, else interaction_required, and whose error_description has
\* no CR or LF.
C29_ConsentChallenge ==
    (Responded /\ RaisedWhileServing("AuthenticationUIRequiredException"))
        => ChallengeOf(h_in.exc)

\* When the exception reaches the registered handlers, the response is the
\* 401 with the challenge.
ConsentChallengeOfHandler ==
    (Dispatched /\ RaisedWhileServing("AuthenticationUIRequiredException"))
        => ChallengeOf(h_in.exc)

\* C30: every authentication error raised while a request is served is
\* answered with the structured response of that error (for
\* AuthenticationException: 401, its error code and its message) on every
\* control-plane and data-plane route, item1SupportedOperators,
\* item1DoubleResult and getLastResult included.
C30_StructuredAuthErrors ==
    \A type \in {"AuthenticationException", "AuthenticationUIRequiredException"} :
        (Responded /\ RaisedWhileServing(type)) =>
            /\ h_out.status = 401
            /\ h_out.shape = "error_response"
            /\ h_out.error_code = ErrorCodeOf(type)
            /\ h_out.message = h_in.exc.message

\* ------------------------------------------------------------------------
\* C32
\* ------------------------------------------------------------------------

IsPrefix(s, t) == Len(s) <= Len(t) /\ SubSeq(t, 1, Len(s)) = s

\* The steps of one validation with the expected issuer and audience resolved
\* before the signing key is looked up.
IssuerFirstSteps ==
    <<"decode", "tid", "ver", "getconfig", "issuer", "audience", "findkey",
      "verify", "appidclaim", "shape", "accepted">>

\* The validation of loc.tok obtained a configuration that has no key with
\* the token's kid and no issuer for the token's version and tenant.
UnknownKidAndNoIssuer ==
    /\ InValidation
    /\ Happened(loc.role, "getconfig", "pass")
    /\ ~KidAmong(loc.cfg.signing_keys, tokens[loc.tok].kid)
    /\ ~GetExpectedIssuer(loc.cfg, loc.ver, loc.tid).ok

HasTenantIdPlaceholder(template) ==
    \E i \in DOMAIN template : template[i] = "{tenantid}"

\* Validation `role` resolved, or failed to resolve, the expected issuer.
IssuerStepDone(role) ==
    Happened(role, "issuer", "pass") \/ Happened(role, "issuer", "fail")

\* C33: the expected issuer and audience are functions of the token version
\* and of the token's tid: for v1 the issuer template with {tenantid} replaced
\* by the tid and the configured audience, for v2 the AAD instance URL, the
\* tid and "/v2.0" and the configured client id; a v1 template without the
\* tenantid placeholder fails with AuthenticationException.
C33_ExpectedIssuerAndAudience ==
    (InValidation /\ IssuerStepDone(loc.role)) =>
        IF loc.ver = "V2"
        THEN /\ Happened(loc.role, "issuer", "pass")
             /\ loc.issuer = IssuerV2Of(tokens[loc.tok].tid)
             /\ Happened(loc.role, "audience", "pass") => loc.aud = client_id
        ELSE IF HasTenantIdPlaceholder(loc.cfg.issuer_configuration)
             THEN /\ loc.ver = "V1"
                  /\ Happened(loc.role, "issuer", "pass")
                  /\ loc.issuer = [i \in DOMAIN loc.cfg.issuer_configuration |->
                                      IF loc.cfg.issuer_configuration[i] = "{tenantid}"
                                      THEN tokens[loc.tok].tid
                                      ELSE loc.cfg.issuer_configuration[i]]
                  /\ Happened(loc.role, "audience", "pass") => loc.aud = audience
             ELSE /\ Happened(loc.role, "issuer", "fail")
                  /\ Raised
                  /\ result.error = "AuthenticationException"

\* ------------------------------------------------------------------------
\* C36
\* ------------------------------------------------------------------------

AppTokenSteps == {"app_version", "app_appid", "app_tid"}

\* The call ended in the validation of the app token or in one of the checks
\* of its claims.
RejectedForAppToken ==
    /\ Raised
    /\ LET e == trace[Len(trace)]
       IN  /\ e[3] = "fail"
           /\ e[1] = "app" \/ (e[1] = "call" /\ e[2] \in AppTokenSteps)

\* C36: in a control-plane call the validation of the subject token starts
\* only after the app token passed validation, its app-id check and its
\* publisher-tenant check; a call that rejects the app token never starts the
\* validation of the subject token; and a header with an invalid app token and
\* no subject token fails for the app token, not for the missing subject token.
C36_AppTokenBeforeSubjectToken ==
    ControlCall =>
        /\ (Started("subject") \/ loc.role = "subject") =>
            /\ AppChecksPassed
            /\ Happened("call", "subject_present", "pass")
            /\ loc.app_token_claims = Some(sat.app_token)
        /\ RejectedForAppToken =>
            /\ ~Started("subject")
            /\ loc.subject_claims = None
            /\ \A i \in DOMAIN trace : trace[i][2] # "subject_present"
        /\ (Raised /\ sat.ok /\ ~sat.subject_token.some /\ ~AppChecksPassed) =>
            /\ RejectedForAppToken
            /\ result.message # "SubjectAndAppToken is missing subject token"

C36_Witness ==
    /\ Raised /\ ControlCall
    /\ sat.ok /\ ~sat.subject_token.some
    /\ req.require_subject_token
    /\ Happened("call", "app_tid", "fail")

\* ------------------------------------------------------------------------
\* C38
\* ------------------------------------------------------------------------

\* Validation `role` looked the signing key up.
KeyLookedUp(role) ==
    Happened(role, "findkey", "pass") \/ Happened(role, "findkey", "fail")

\* C38: a token whose header carries no kid is never matched to a signing
\* key: whatever the signing keys of the configuration are, key records
\* without a kid among them, the lookup for such a token ends the call with
\* the signing-key-not-found error.
C38_NoKidNeverMatched ==
    (InValidation /\ KeyLookedUp(loc.role) /\ tokens[loc.tok].kid = Absent) =>
        /\ Happened(loc.role, "findkey", "fail")
        /\ loc.key = NoKey
        /\ Raised
        /\ result.error = "AuthenticationException"
        /\ result.message = "Token validation failed: Token signing key not found"

\* ------------------------------------------------------------------------
\* C39
\* ------------------------------------------------------------------------

\* The second of two calls that differ in tenant_id has ended, and it was
\* given the configuration the first call was given.
SecondCallDone ==
    /\ Done
    /\ d_first.seen
    /\ loc.cfg = d_first.cfg

TenantMessages ==
    {"tenant_id header is missing", "subject tokens must belong to the subject's tenant"}

\* C39: the tenant_id argument of authenticate_data_plane_call has no effect:
\* of two calls with the same header, allowed scopes and configuration that
\* differ in tenant_id, the second ends as the first did, with the same error
\* or with the same context, whose tenant_object_id is the tid claim of the
\* token; no data-plane call is rejected for its tenant_id.
C39_TenantIdHasNoEffect ==
    /\ d_first.seen => req.tenant_id # d_first.tenant_id
    /\ SecondCallDone => result = d_first.result
    /\ (Done /\ DataCall) =>
        /\ Returned => result.ctx.tenant_object_id = tokens[loc.tok].tid
        /\ Raised => result.message \notin TenantMessages

C39_Witness ==
    /\ SecondCallDone
    /\ Returned
    /\ req.tenant_id = "t1"
    /\ d_first.tenant_id = NoneStr
    /\ tokens[loc.tok].tid = publisher_tenant_id
    /\ result.ctx.tenant_object_id = publisher_tenant_id

\* ------------------------------------------------------------------------
\* C34
\* ------------------------------------------------------------------------

\* get_access_token_on_behalf_of passed its three precondition checks and
\* has ended.
OboAsked ==
    /\ o_pc = "done"
    /\ Truthy(o_in.original_subject_token)
    /\ o_in.client_secret # ""
    /\ ~Falsy(o_in.tenant_object_id)

ProviderFailed == o_in.answer.raises \/ o_in.answer.error # Absent

\* C34: one call of get_access_token_on_behalf_of calls the provider's
\* acquire_token_on_behalf_of once at most and one call of
\* get_fabric_s2s_token calls acquire_token_for_client once at most, whatever
\* the provider returns or raises; when the provider raises or returns an
\* error the call fails after that one provider call.
C34_NoRetries ==
    /\ Len(o_calls) <= 1
    /\ \A i \in DOMAIN o_calls :
            o_calls[i][1] = (IF o_pc \in {"s2s_acquire", "s2s_classify", "s2s_done"}
                             THEN "acquire_token_for_client"
                             ELSE "acquire_token_on_behalf_of")
    /\ OboAsked =>
            /\ Len(o_calls) = 1
            /\ ProviderFailed => o_out.status = "raised"
    /\ o_pc = "s2s_done" =>
            /\ Len(o_calls) = 1
            /\ ProviderFailed => o_out.status = "raised"

C34_Witness ==
    /\ OboAsked
    /\ o_in.answer.raises
    /\ o_out = OboFailure(<<"OBO token acquisition failed: ">>)
    /\ o_calls = << <<"acquire_token_on_behalf_of", a_apps[AuthorityOf("t1")]>> >>

\* ------------------------------------------------------------------------
\* C37
\* ------------------------------------------------------------------------

\* get_access_token_on_behalf_of ended at one of its precondition checks.
OboPreconditionFailed ==
    /\ o_pc = "done"
    /\ \/ ~Truthy(o_in.original_subject_token)
       \/ client_id = "" \/ o_in.client_secret = ""
       \/ Falsy(o_in.tenant_object_id)

OboPreconditionSteps == {"check_subject_token", "check_client", "check_tenant"}

\* A step taken at one of the precondition checks leaves the client map, the
\* clients constructed and the provider calls as they were, and goes on to
\* the client lookup only if all three preconditions hold.
PreconditionStep ==
    o_pc \in OboPreconditionSteps =>
        /\ UNCHANGED <<a_apps, a_built, o_calls>>
        /\ o_pc' = "acquire" =>
                /\ Truthy(o_in.original_subject_token)
                /\ o_in.client_secret # ""
                /\ ~Falsy(o_in.tenant_object_id)

\* C37: get_access_token_on_behalf_of called without an original subject
\* token (None or empty), without client id or client secret, or without
\* tenant_object_id fails with AuthenticationException before a client is
\* looked up or constructed and before any provider call: the call has made
\* no provider call, and no step up to and including the failing check
\* changes the per-authority client map or constructs a client.
C37_PreconditionFailuresLeaveClientsAlone ==
    /\ [](OboPreconditionFailed =>
            /\ o_out.status = "raised"
            /\ o_out.error = "AuthenticationException"
            /\ o_out.message \in
                    { <<"OBO flow requires an original subject token.">>,
                      <<"MSAL client not configured for OBO flow.">>,
                      <<"Cannot determine tenant authority for OBO flow.">> }
            /\ o_calls = <<>>)
    /\ [][PreconditionStep]_vars

C37_Witness ==
    /\ OboPreconditionFailed
    /\ o_in.original_subject_token = Some(<<>>)
    /\ o_in.client_secret # ""
    /\ o_in.tenant_object_id = "t1"
    /\ a_apps[AuthorityOf("t1")] = NoApp
    /\ o_calls = <<>>

\* ------------------------------------------------------------------------
\* C35
\* ------------------------------------------------------------------------

\* Task t found the cache empty or expired and had to wait for the lock,
\* another task holding it.
Contended(t) == StaleOnEntry(t) /\ m_task[t].waited

\* C35: of the callers that find the cache expired and contend for the lock
\* only the holder fetches; a caller that had to wait for the lock sends no
\* GET, also when the holder's fetch failed and the stale configuration was
\* served: while such a caller is under way the burst has one fetch at most.
C35_WaitersNeverFetch ==
    /\ \A t \in Tasks : Contended(t) => m_task[t].gets = 0
    /\ (\E t \in Tasks : Contended(t)) => Len(BurstFetches) <= 1

\* ------------------------------------------------------------------------
\* C40
\* ------------------------------------------------------------------------

\* A fetch has succeeded and its configuration has been stored.
FetchStored ==
    \E i \in DOMAIN m_fetches :
        /\ m_fetches[i].status = "ok"
        /\ m_fetches[i].by \in Tasks => m_task[m_fetches[i].by].pc # "store_configuration"

\* Task t called when the cache held a configuration.
CalledWithConfiguration(t) ==
    m_task[t].pc # "idle" /\ m_task[t].seen.configuration.present

\* What the calls under way or ended see of a cache that has been filled.
CacheStaysFilled ==
    /\ FetchStored => oidc_configuration.present
    /\ \A t \in Tasks :
        CalledWithConfiguration(t) =>
            /\ oidc_configuration.present
            /\ m_last_updated >= m_task[t].seen.last_updated
            /\ MgrDone(t) =>
                    /\ m_task[t].outcome \in {"cached", "rechecked", "refreshed", "stale"}
                    /\ m_task[t].returned.present
                    /\ m_task[t].error = ""

\* No step empties the cache or sets last_updated back.
CacheStep ==
    /\ oidc_configuration.present => oidc_configuration'.present
    /\ m_last_updated' >= m_last_updated

\* C40: once a fetch has succeeded the cache is never empty again and
\* last_updated never decreases; every call made after that, in every
\* interleaving of the callers and whichever fetches fail, returns a
\* configuration and does not raise the error of a fetch.
C40_CacheNeverEmptiedAgain == []CacheStaysFilled /\ [][CacheStep]_vars

C40_Witness ==
    \E t, u \in Tasks :
        /\ t # u
        /\ m_bursts = 1
        /\ m_task[t].outcome = "stale" /\ m_task[u].outcome = "stale"
        /\ m_task[t].returned = oidc_configuration
        /\ m_last_updated < m_task[t].current_time


\* ------------------------------------------------------------------------
\* C31: unclassified exceptions at the HTTP boundary
\* ------------------------------------------------------------------------

\* Exception classes without a registered handler of their own.
UnclassifiedExceptionTypes == {"Exception", "UnboundLocalError", "PermissionError"}

UnclassifiedExceptions ==
    {exc \in AuthenticateRaises \cup AuthorizeRaises \cup OperateRaises :
        exc.type \in UnclassifiedExceptionTypes}

\* The unclassified exceptions the route was left with: the one raised, or
\* the one endpoint_resolution_resolve wrapped into its HTTPException.
UnclassifiedRaised ==
    {exc \in UnclassifiedExceptions :
        /\ h_in.at \in {"authenticate", "authorize", "operate"}
        /\ \/ h_in.exc = exc
           \/ /\ h_in.exc.type = "HTTPException"
              /\ h_in.exc.message = <<"Error resolving endpoint: ">> \o exc.message}

\* Some piece of the text is part of the body.
CarriesTextOf(body, text) ==
    \E i \in DOMAIN body, j \in DOMAIN text : body[i] = text[j]

\* C31: on every route, the response to an exception that is not one of the
\* classified workload errors is a 500 response whose body carries no text
\* of the exception.
C31_UnclassifiedIsGeneric500 ==
    (h_pc = "done") =>
        \A exc \in UnclassifiedRaised :
            /\ h_out.status = 500
            /\ ~CarriesTextOf(h_out.message, exc.message)

\* The same on the routes that leave the exception to the registered
\* handlers.
RoutesWithOwnExcept == {"item1SupportedOperators", "getLastResult", "resolveEndpoint"}

UnclassifiedReachesGlobalHandler ==
    (h_pc = "done" /\ h_in.route \notin RoutesWithOwnExcept) =>
        \A exc \in UnclassifiedRaised :
            h_out = ToResponse(Exc("InternalErrorException", <<"Unexpected error">>))

UnclassifiedAtGlobalHandler ==
    /\ h_pc = "done"
    /\ h_in.route \notin RoutesWithOwnExcept
    /\ UnclassifiedRaised # {}

=============================================================================
